---- MODULE Spec2Model ----
(***************************************************************************)
(* Cv::Mat of ruby-opencv (ext/opencv/mat.cpp): Ruby objects wrapping      *)
(* heap-allocated cv::Mat headers that share reference-counted buffers.    *)
(*                                                                         *)
(* Encoding of values.  A double (a component of a cv::Scalar, a Ruby      *)
(* Float) is an integer counting halves: the double 5.5 is 11, 300.0 is    *)
(* 600.  A stored component of an integer depth is the integer itself; a   *)
(* stored component of a float depth is a double, in halves.  Buffers are  *)
(* sequences of components; offsets and steps count components.            *)
(*                                                                         *)
(* Build.  The extension is compiled without _DEBUG, so cv::Mat::ptr and   *)
(* cv::Mat::at check nothing (CV_DbgAssert expands to nothing); CV_Assert  *)
(* stays active and throws cv::Exception.                                  *)
(***************************************************************************)
EXTENDS Integers, Sequences, FiniteSets, TLC

\* ------------------------------------------------------------------ bounds
MaxCalls == 2

\* --------------------------------------------------------- type constants
CV_8U == 0
CV_8S == 1
CV_16U == 2
CV_16S == 3
CV_32S == 4
CV_32F == 5
CV_64F == 6

\* CV_MAT_DEPTH(type) and CV_MAT_CN(type) as used by depth() and channels()
depth(type) == type % 8
channels(type) == (type \div 8) + 1

IntDepths == {CV_8U, CV_8S, CV_16U, CV_16S, CV_32S}
UnsignedDepths == {CV_8U, CV_16U}
SupportedDepths == {CV_8U, CV_8S, CV_16U, CV_16S, CV_32S, CV_32F, CV_64F}

\* ------------------------------------------------------------ numeric kit
Abs(x) == IF x < 0 THEN -x ELSE x
Sgn(x) == IF x < 0 THEN -1 ELSE 1

\* round a >= 0 to a multiple of q, ties to the even multiple
RoundTiesEven(a, q) ==
  LET k == a \div q
      r == a - k * q
  IN  IF 2 * r < q THEN k * q
      ELSE IF 2 * r > q THEN (k + 1) * q
      ELSE IF k % 2 = 0 THEN k * q ELSE (k + 1) * q

\* the integer part of the double d, as C's conversion truncates toward zero
Trunc(d) == Sgn(d) * (Abs(d) \div 2)

MinOf(dp) ==
  CASE dp = CV_8U -> 0
    [] dp = CV_8S -> -128
    [] dp = CV_16U -> 0
    [] dp = CV_16S -> -32768
    [] OTHER -> -2147483647 - 1

MaxOf(dp) ==
  CASE dp = CV_8U -> 255
    [] dp = CV_8S -> 127
    [] dp = CV_16U -> 65535
    [] dp = CV_16S -> 32767
    [] OTHER -> 2147483647

Modulus(dp) == IF dp \in {CV_8U, CV_8S} THEN 256 ELSE 65536

\* two's complement wraparound of the integer t into the integer depth dp
Wrap(dp, t) ==
  IF dp = CV_32S THEN t
  ELSE LET m == t % Modulus(dp)
       IN  IF dp \notin UnsignedDepths /\ m > MaxOf(dp) THEN m - Modulus(dp) ELSE m

\* spacing, in halves, of the floats around the magnitude a
RECURSIVE F32Quantum(_, _)
F32Quantum(a, q) == IF a \div q < 16777216 THEN q ELSE F32Quantum(a, 2 * q)

\* (float)d: round to nearest float, ties to even
RoundF32(d) == Sgn(d) * RoundTiesEven(Abs(d), F32Quantum(Abs(d), 1))

\* the double d is a value of the depth dp
Representable(dp, d) ==
  IF dp \in IntDepths THEN d % 2 = 0 /\ Trunc(d) >= MinOf(dp) /\ Trunc(d) <= MaxOf(dp)
  ELSE IF dp = CV_32F THEN RoundF32(d) = d
  ELSE TRUE

\* what (T)d stores for a Scalar component d in rb_aset.  A double whose
\* integer part does not fit T makes the conversion undefined: the builds
\* differ between a signed conversion followed by a truncating store (the
\* low bits, i.e. wraparound) and, for a negative value into an unsigned T,
\* a saturating unsigned conversion (0).
CastOutcomes(dp, d) ==
  IF dp = CV_64F THEN {d}
  ELSE IF dp = CV_32F THEN {RoundF32(d)}
  ELSE LET t == Trunc(d)
       IN  IF t >= MinOf(dp) /\ t <= MaxOf(dp) THEN {t}
           ELSE {Wrap(dp, t)} \cup (IF dp \in UnsignedDepths /\ t < 0 THEN {0} ELSE {})

\* the double a stored component converts to in cv::Scalar(Scalar_<T>)
ToDouble(dp, s) == IF dp \in IntDepths THEN 2 * s ELSE s

\* ------------------------------------------------------------- the heap
VARIABLES
  objs,    \* Ruby objects of class Cv::Mat: data pointer and view ancestry
  mats,    \* cv::Mat headers allocated with new
  bufs,    \* reference-counted data buffers
  last,    \* the most recent call: arguments, outcome, returned value
  pre,     \* the buffers as they were when the most recent call began
  ncalls,  \* number of calls made so far
  alive    \* FALSE once the process has died on a wild write

vars == <<objs, mats, bufs, last, pre, ncalls, alive>>

\* Ruby values passed as arguments
RNil == [k |-> "nil", v |-> <<>>]
RNum(d) == [k |-> "num", v |-> <<d>>]
RScalar(s) == [k |-> "scalar", v |-> s]
RMat(o) == [k |-> "mat", v |-> <<o>>]
NoRoi == [x |-> 0, y |-> 0, width |-> 0, height |-> 0]

\* cv::Mat(): no rows, no columns, no buffer
EmptyMat == [live |-> TRUE, rows |-> 0, cols |-> 0, type |-> 0, buf |-> 0, off |-> 0, step |-> 0]

\* cv::Mat::empty()
empty(m) == m.buf = 0 \/ m.rows * m.cols = 0

\* obj2mat: the cv::Mat a Ruby object wraps
obj2mat(o) == mats[objs[o].data]

\* mat2obj: wrap a header in a new Ruby object.  how, parent and roi record
\* where the header came from: "view" of parent over roi, "clone" of parent
mat2obj(ptr, how, parent, roi) == [data |-> ptr, how |-> how, parent |-> parent, roi |-> roi]

\* a call record.  kern holds the arguments the call handed to the OpenCV
\* function behind it, where the model keeps them
Call(op, self, args, status, ret, val, wr) ==
  [op |-> op, self |-> self, args |-> args, status |-> status, ret |-> ret, val |-> val, wr |-> wr,
   kern |-> <<>>]

\* a buffer of n components, each holding v, referenced once
NewBuf(n, v) == [refcount |-> 1, data |-> [k \in 1..n |-> v]]

\* position in the buffer (from 1) of component c of element (i, j) of m
CompPos(m, i, j, c) == m.off + i * m.step + j * channels(m.type) + c + 1

InBuf(b, pos) == b # 0 /\ pos >= 1 /\ pos <= Len(bufs[b].data)

\* rows and columns an index must respect
InRange(m, i, j) == i >= 0 /\ i < m.rows /\ j >= 0 /\ j < m.cols

\* the objects a program can still name: initialized, not yet collected
Live == {o \in 1..Len(objs) : objs[o].data # 0 /\ objs[o].how # "freed"}

\* ------------------------------------------------------------- the inputs
TypeArgs == {CV_8U, CV_8S, CV_16U, CV_16S, CV_32S, CV_32F, CV_64F, 7, 8}
GarbageVals == {0, 85}

\* ------------------------------------------------- Mat.new (rb_initialize)
\* <<rows, cols>> and the optional type
NewArgs ==
  { <<2, 2, <<CV_8U>>>>, <<2, 2, <<8>>>>, <<2, 2, <<>>>>,
    <<0, 2, <<CV_8U>>>>, <<2, 0, <<CV_8U>>>>, <<-1, 2, <<CV_8U>>>> }
RoiArgs ==
  { [x |-> 0, y |-> 0, width |-> 1, height |-> 1],
    [x |-> 1, y |-> 1, width |-> 1, height |-> 1],
    [x |-> 0, y |-> 1, width |-> 2, height |-> 1],
    [x |-> 1, y |-> 0, width |-> 1, height |-> 2],
    [x |-> 1, y |-> 1, width |-> 2, height |-> 1],
    [x |-> 0, y |-> 0, width |-> 0, height |-> 1] }

\* the CV_Assert of cv::Mat::Mat(const Mat& m, const Rect& roi)
RoiInside(m, roi) ==
  /\ 0 <= roi.x /\ 0 <= roi.width /\ roi.x + roi.width <= m.cols
  /\ 0 <= roi.y /\ 0 <= roi.height /\ roi.y + roi.height <= m.rows

\* a view header that forgets the region's offset
ViewHeaderNoOffset(m, roi) ==
  [live |-> TRUE, rows |-> roi.height, cols |-> roi.width, type |-> m.type, buf |-> m.buf,
   off |-> m.off, step |-> m.step]

\* the header cv::Mat(m, roi) builds over m's buffer
ViewHeader(m, roi) ==
  [live |-> TRUE, rows |-> roi.height, cols |-> roi.width, type |-> m.type, buf |-> m.buf,
   off |-> m.off + roi.y * m.step + roi.x * channels(m.type), step |-> m.step]

\* as NewFails, but the matrix stays allocated and is attached to the receiver
NewFails_attached(op, args, error, header) ==
  /\ mats' = IF error = "NoMemError" THEN Append(mats, header) ELSE mats
  /\ objs' = Append(objs, mat2obj(IF error = "NoMemError" THEN Len(mats) + 1 ELSE 0,
                                  "new", 0, NoRoi))
  /\ last' = Call(op, Len(objs) + 1, args, error, 0,
                  IF error = "NoMemError" THEN <<Len(mats) + 1>> ELSE <<>>, <<>>)
  /\ UNCHANGED bufs

\* new raises.  The receiver is the object rb_allocate made, and its data
\* pointer stays null.  NoMemError: the matrix with the given header was
\* constructed, found empty and deleted (a view's reference to its parent's
\* buffer is taken and dropped again); CvError: the constructor threw, and
\* no matrix was made
NewFails(op, args, error, header) ==
  /\ mats' = IF error = "NoMemError" THEN Append(mats, [header EXCEPT !.live = FALSE]) ELSE mats
  /\ objs' = Append(objs, mat2obj(0, "allocated", 0, NoRoi))
  /\ last' = Call(op, Len(objs) + 1, args, error, 0,
                  IF error = "NoMemError" THEN <<Len(mats) + 1>> ELSE <<>>, <<>>)
  /\ UNCHANGED bufs

\* new(rows, cols, type): RTEST(rb_obj_is_kind_of(v1, rb_cNumeric))
InitializeDims(rows, cols, type) ==
  LET t == IF type = <<>> THEN CV_8U ELSE type[1]
      n == rows * cols * channels(t)
      args == <<rows, cols, type>>
  IN  \/ /\ rows < 0 \/ cols < 0
         /\ NewFails("new", args, "CvError", EmptyMat)
      \/ /\ rows >= 0 /\ cols >= 0 /\ n = 0
         /\ NewFails("new", args, "NoMemError",
                     [EmptyMat EXCEPT !.rows = rows, !.cols = cols, !.type = t])
      \/ /\ rows >= 0 /\ cols >= 0 /\ n > 0
         /\ \E g \in GarbageVals :
              bufs' = Append(bufs, NewBuf(n, g))
         /\ mats' = Append(mats, [live |-> TRUE, rows |-> rows, cols |-> cols, type |-> t,
                                  buf |-> Len(bufs) + 1, off |-> 0, step |-> cols * channels(t)])
         /\ objs' = Append(objs, mat2obj(Len(mats) + 1, "new", 0, NoRoi))
         /\ last' = Call("new", Len(objs) + 1, args, "ok", Len(objs) + 1, <<>>, <<>>)

\* new(m, roi): a header over a region of m
InitializeView(p, roi) ==
  LET m == obj2mat(p)
      args == <<p, roi>>
  IN  \/ /\ ~RoiInside(m, roi)
         /\ NewFails("view", args, "CvError", EmptyMat)
      \/ /\ RoiInside(m, roi) /\ roi.width * roi.height = 0
         /\ NewFails("view", args, "NoMemError", ViewHeader(m, roi))
      \/ /\ RoiInside(m, roi) /\ roi.width * roi.height > 0
         /\ bufs' = [bufs EXCEPT ![m.buf].refcount = @ + 1]
         /\ mats' = Append(mats, ViewHeader(m, roi))
         /\ objs' = Append(objs, mat2obj(Len(mats) + 1, "view", p, roi))
         /\ last' = Call("view", Len(objs) + 1, args, "ok", Len(objs) + 1, <<>>, <<>>)

rb_initialize ==
  /\ alive /\ ncalls < MaxCalls
  /\ ncalls' = ncalls + 1
  /\ pre' = bufs
  /\ \/ \E a \in NewArgs : InitializeDims(a[1], a[2], a[3])
     \/ \E p \in Live, roi \in RoiArgs : InitializeView(p, roi)
  /\ UNCHANGED alive

\* ------------------------------------------------------------------ clone
\* m.copyTo(dst) into an empty dst: a continuous buffer of m's elements
CopyData(m) ==
  LET cn == channels(m.type)
      w == m.cols * cn
  IN  [k \in 1..(m.rows * w) |->
         bufs[m.buf].data[m.off + ((k - 1) \div w) * m.step + ((k - 1) % w) + 1]]

\* a clone that copies the header only, as cv::Mat's copy constructor does
rb_clone_shallow ==
  /\ alive /\ ncalls < MaxCalls
  /\ ncalls' = ncalls + 1
  /\ pre' = bufs
  /\ \E self \in Live :
       LET m == obj2mat(self)
       IN  /\ bufs' = [bufs EXCEPT ![m.buf].refcount = @ + 1]
           /\ mats' = Append(mats, m)
           /\ objs' = Append(objs, mat2obj(Len(mats) + 1, "clone", self, NoRoi))
           /\ last' = Call("clone", self, <<>>, "ok", Len(objs) + 1, <<>>, <<>>)
  /\ UNCHANGED alive

rb_clone ==
  /\ alive /\ ncalls < MaxCalls
  /\ ncalls' = ncalls + 1
  /\ pre' = bufs
  /\ \E self \in Live :
       LET m == obj2mat(self)
       IN  /\ bufs' = Append(bufs, [refcount |-> 1, data |-> CopyData(m)])
           /\ mats' = Append(mats, [live |-> TRUE, rows |-> m.rows, cols |-> m.cols, type |-> m.type,
                                    buf |-> Len(bufs) + 1, off |-> 0, step |-> m.cols * channels(m.type)])
           /\ objs' = Append(objs, mat2obj(Len(mats) + 1, "clone", self, NoRoi))
           /\ last' = Call("clone", self, <<>>, "ok", Len(objs) + 1, <<>>, <<>>)
  /\ UNCHANGED alive

\* ------------------------------------------------------ []= (rb_aset)
ScalarArgs ==
  { <<11, 0, 0, 0>>,          \* 5.5
    <<600, 0, 0, 0>>,         \* 300
    <<-2, 0, 0, 0>>,          \* -1
    <<140000, 0, 0, 0>>,      \* 70000
    <<33554434, 0, 0, 0>>,    \* 16777217
    <<10, 14, 18, 22>> }      \* (5, 7, 9, 11)

\* Scalar::obj2scalar: the cv::Scalar of a Cv::Scalar object
IsScalar(v) == v.k = "scalar"

\* <<index, value>>: every value at the first element, one value at another
\* element and at indices outside a 2x2 matrix, and a value that is no Scalar
AsetArgs ==
  {<<<<0, 0>>, RScalar(s)>> : s \in ScalarArgs} \cup
  {<<i, RScalar(<<600, 0, 0, 0>>)>> : i \in {<<1, 1>>, <<0, 2>>, <<-1, 0>>}} \cup
  {<<<<0, 0>>, RNil>>}

\* what (T)((*scalar)[i]) may be for component i (from 1): a Scalar holds
\* four doubles, and the read of a fifth finds whatever follows it
ScalarCast(dp, value, i, g) == IF i <= 4 THEN CastOutcomes(dp, value[i]) ELSE {g}

\* the components the loop p[i] = (T)((*scalar)[i]) may store
WrChoices(dp, cn, value) ==
  UNION {{w \in [1..cn -> UNION {ScalarCast(dp, value, i, g) : i \in 1..cn}] :
            \A i \in 1..cn : w[i] \in ScalarCast(dp, value, i, g)} : g \in GarbageVals}

\* as ApplyWrite, but the store is that of a whole Scalar_<T>: four
\* components, zero beyond those of w
ApplyWrite_four(data, base, w) ==
  [k \in 1..Len(data) |->
     IF k - base \in DOMAIN w THEN w[k - base]
     ELSE IF k - base \in 1..4 THEN 0 ELSE data[k]]

\* data after storing w[1..] at positions base+1.. ; stores past either end
\* of the buffer do not land in it
ApplyWrite(data, base, w) ==
  [k \in 1..Len(data) |-> IF k - base \in DOMAIN w THEN w[k - base] ELSE data[k]]

rb_aset ==
  /\ alive /\ ncalls < MaxCalls
  /\ ncalls' = ncalls + 1
  /\ pre' = bufs
  /\ \E self \in Live, a \in AsetArgs :
       LET m == obj2mat(self)
           row == a[1][1]
           col == a[1][2]
           value == a[2]
           cn == channels(m.type)
           dp == depth(m.type)
           base == m.off + row * m.step + col * cn
           args == <<row, col, value>>
           inside == base >= 0 /\ base + cn <= Len(bufs[m.buf].data)
       IN  \/ /\ ~IsScalar(value)
              /\ last' = Call("aset", self, args, "TypeError", 0, <<>>, <<>>)
              /\ UNCHANGED <<objs, mats, bufs, alive>>
           \/ /\ IsScalar(value) /\ dp \notin SupportedDepths
              /\ last' = Call("aset", self, args, "StandardError", 0, <<>>, <<>>)
              /\ UNCHANGED <<objs, mats, bufs, alive>>
           \/ /\ IsScalar(value) /\ dp \in SupportedDepths
              /\ \E w \in WrChoices(dp, cn, value.v) :
                   /\ last' = Call("aset", self, args, "ok", self, <<>>, w)
                   /\ \/ /\ bufs' = [bufs EXCEPT ![m.buf].data = ApplyWrite(@, base, w)]
                         /\ UNCHANGED alive
                      \/ /\ ~inside
                         /\ \E b \in 1..Len(bufs), g \in GarbageVals :
                              /\ b # m.buf
                              /\ bufs' = [bufs EXCEPT ![m.buf].data = ApplyWrite(@, base, w),
                                                      ![b].data[1] = g]
                         /\ UNCHANGED alive
                      \/ /\ ~inside
                         /\ alive' = FALSE
                         /\ UNCHANGED bufs
              /\ UNCHANGED <<objs, mats>>

\* ------------------------------------------------------ [] (rb_aref)
CV_MAX_DIM == 32

IndexArgs ==
  {<<0, 0>>, <<1, 1>>, <<1, 0>>, <<0, 2>>, <<-1, 0>>, <<1>>, [k \in 1..(CV_MAX_DIM + 1) |-> 0]}

\* value of index[k] after the copy loop: the argument, or whatever the
\* uninitialized array element holds
IndexChoices(args, k) == IF k <= Len(args) THEN {args[k]} ELSE {0, 1}

\* the four components at<Scalar_<T>>(index) reads, starting at the element;
\* g stands for the bytes found outside the buffer
ReadScalar(m, i, j, g) ==
  [c \in 1..4 |->
     LET pos == CompPos(m, i, j, c - 1)
     IN  ToDouble(depth(m.type), IF InBuf(m.buf, pos) THEN bufs[m.buf].data[pos] ELSE g)]

\* the element (i, j) within what [] returns: its first channels() components
ElemTuple(m, i, j) == [c \in 1..channels(m.type) |-> ReadScalar(m, i, j, 0)[c]]

\* the loop over the arguments stores one component per argument into
\* int index[CV_MAX_DIM]; nothing compares the count with the array's length
IndexStored(args) == Len(args)

\* the record of a call of [] : kern holds the number of components stored
ArefCall(self, args, status, val, wr) ==
  [Call("aref", self, args, status, 0, val, wr) EXCEPT !.kern = <<IndexStored(args)>>]

rb_aref ==
  /\ alive /\ ncalls < MaxCalls
  /\ ncalls' = ncalls + 1
  /\ pre' = bufs
  /\ \E self \in Live, args \in IndexArgs :
       LET m == obj2mat(self)
       IN  \/ /\ IndexStored(args) > CV_MAX_DIM
              /\ last' = ArefCall(self, args, "ok", <<>>, <<>>)
              /\ alive' = FALSE
           \/ /\ depth(m.type) \notin SupportedDepths
              /\ last' = ArefCall(self, args, "StandardError", <<>>, <<>>)
              /\ UNCHANGED alive
           \/ /\ depth(m.type) \in SupportedDepths
              /\ \E i \in IndexChoices(args, 1), j \in IndexChoices(args, 2) :
                   \/ /\ m.buf # 0
                      /\ \E g \in GarbageVals :
                           last' = ArefCall(self, args, "ok", ReadScalar(m, i, j, g), <<i, j>>)
                      /\ UNCHANGED alive
                   \/ /\ \E c \in 0..3 : ~InBuf(m.buf, CompPos(m, i, j, c))
                      /\ last' = ArefCall(self, args, "ok", <<>>, <<i, j>>)
                      /\ alive' = FALSE
  /\ UNCHANGED <<objs, mats, bufs>>

\* ------------------------------------------------ Mat.zeros, Mat.ones
FactoryArgs == {<<2, 2, CV_8U>>, <<2, 2, 8>>}

\* a result that is a header over the receiver's buffer, nothing computed
WrapShared(op, self, args, rows, cols, type, data) ==
  /\ IF self = 0
     THEN /\ bufs' = Append(bufs, [refcount |-> 1, data |-> data])
          /\ mats' = Append(mats, [live |-> TRUE, rows |-> rows, cols |-> cols, type |-> type,
                                   buf |-> Len(bufs) + 1, off |-> 0, step |-> cols * channels(type)])
     ELSE /\ bufs' = [bufs EXCEPT ![obj2mat(self).buf].refcount = @ + 1]
          /\ mats' = Append(mats, obj2mat(self))
  /\ objs' = Append(objs, mat2obj(Len(mats) + 1, "new", 0, NoRoi))
  /\ last' = Call(op, self, args, "ok", Len(objs) + 1, <<>>, <<>>)

\* wrap a header over a fresh continuous buffer holding data
WrapFresh(op, self, args, rows, cols, type, data) ==
  /\ bufs' = Append(bufs, [refcount |-> 1, data |-> data])
  /\ mats' = Append(mats, [live |-> TRUE, rows |-> rows, cols |-> cols, type |-> type,
                           buf |-> Len(bufs) + 1, off |-> 0, step |-> cols * channels(type)])
  /\ objs' = Append(objs, mat2obj(Len(mats) + 1, "new", 0, NoRoi))
  /\ last' = Call(op, self, args, "ok", Len(objs) + 1, <<>>, <<>>)

\* wrap a header that has no data
WrapEmpty(op, self, args, rows, cols, type) ==
  /\ mats' = Append(mats, [live |-> TRUE, rows |-> rows, cols |-> cols, type |-> type,
                           buf |-> 0, off |-> 0, step |-> 0])
  /\ objs' = Append(objs, mat2obj(Len(mats) + 1, "new", 0, NoRoi))
  /\ last' = Call(op, self, args, "ok", Len(objs) + 1, <<>>, <<>>)
  /\ UNCHANGED bufs

\* the call raises: nothing is allocated, nothing changes
Raise(op, self, args, error) ==
  /\ last' = Call(op, self, args, error, 0, <<>>, <<>>)
  /\ UNCHANGED <<objs, mats, bufs>>

rb_zeros ==
  /\ alive /\ ncalls < MaxCalls
  /\ ncalls' = ncalls + 1
  /\ pre' = bufs
  /\ \E a \in FactoryArgs :
       WrapFresh("zeros", 0, a, a[1], a[2], a[3],
                 [k \in 1..(a[1] * a[2] * channels(a[3])) |-> 0])
  /\ UNCHANGED alive

\* cv::Mat::ones sets every element to Scalar(1): 1 in the first channel
rb_ones ==
  /\ alive /\ ncalls < MaxCalls
  /\ ncalls' = ncalls + 1
  /\ pre' = bufs
  /\ \E a \in FactoryArgs :
       WrapFresh("ones", 0, a, a[1], a[2], a[3],
                 [k \in 1..(a[1] * a[2] * channels(a[3])) |->
                    IF (k - 1) % channels(a[3]) = 0 THEN 1 ELSE 0])
  /\ UNCHANGED alive

\* --------------------------------------------------- the numeric kernels
\* cvRound of a double: nearest integer, ties to even
cvRound(d) == Sgn(d) * (RoundTiesEven(Abs(d), 2) \div 2)

\* nearest integer to n / d for n >= 0, d > 0, ties to even
RoundRatio(n, d) ==
  LET q == n \div d
      r == n % d
  IN  IF 2 * r < d THEN q
      ELSE IF 2 * r > d THEN q + 1
      ELSE IF q % 2 = 0 THEN q ELSE q + 1

\* saturate_cast<T>(x)
Saturate(dp, x) == IF x < MinOf(dp) THEN MinOf(dp) ELSE IF x > MaxOf(dp) THEN MaxOf(dp) ELSE x

RECURSIVE BitOp(_, _, _, _)
BitOp(f, a, b, n) ==
  IF n = 0 THEN 0
  ELSE LET x == a % 2
           y == b % 2
           z == CASE f = "and" -> x * y
                  [] f = "or" -> IF x + y > 0 THEN 1 ELSE 0
                  [] OTHER -> (x + y) % 2
       IN  z + 2 * BitOp(f, a \div 2, b \div 2, n - 1)

\* one component of the matrix-matrix kernels (a, b stored components)
MatKernel(f, dp, a, b) ==
  CASE f = "add" -> Saturate(dp, a + b)
    [] f = "sub" -> Saturate(dp, a - b)
    [] f = "div" -> IF b = 0 THEN 0 ELSE Saturate(dp, RoundRatio(a, b))
    [] f = "absdiff" -> Saturate(dp, Abs(a - b))
    [] OTHER -> BitOp(f, a, b, 8)

\* one component of the matrix-scalar kernels (a stored, s a double)
ScalarKernel(f, dp, a, s) ==
  CASE f = "add" -> Saturate(dp, cvRound(2 * a + s))
    [] f = "sub" -> Saturate(dp, cvRound(2 * a - s))
    [] f = "absdiff" -> Saturate(dp, cvRound(Abs(2 * a - s)))
    [] OTHER -> BitOp(f, a, Saturate(dp, cvRound(s)), 8)

\* one component of m * d and m / d for a double d
ScaleKernel(f, dp, a, d) ==
  IF f = "mul" THEN Saturate(dp, cvRound(a * d))
  ELSE Saturate(dp, Sgn(d) * RoundRatio(2 * a, Abs(d)))

\* operands of the element-wise matrix-matrix kernels must agree; cv::arithm_op
\* takes a matrix of another size for a scalar only when it is CV_64F
SameSizeType(m, n) == m.rows = n.rows /\ m.cols = n.cols /\ m.type = n.type

MatMat(f, m, n) ==
  LET A == CopyData(m)
      B == CopyData(n)
  IN  [k \in DOMAIN A |-> MatKernel(f, depth(m.type), A[k], B[k])]

MatScalar(f, m, sc) ==
  LET A == CopyData(m)
      cn == channels(m.type)
  IN  [k \in DOMAIN A |-> ScalarKernel(f, depth(m.type), A[k], sc[((k - 1) % cn) + 1])]

\* cv::checkScalar on a cv::Scalar: it serves arrays of up to four channels
ScalarFits(m) == channels(m.type) <= 4

MatScale(f, m, d) ==
  LET A == CopyData(m)
  IN  [k \in DOMAIN A |-> ScaleKernel(f, depth(m.type), A[k], d)]

\* -------------------------------------------------- binary operators
OpScalars == {<<6, 10, 14, 18>>}     \* Scalar(3, 5, 7, 9)
NumArgs == {4}                       \* 2.0

\* the right operands tried: matrices, scalars, numbers and nil
Operands ==
  {RMat(o) : o \in Live} \cup {RScalar(sc) : sc \in OpScalars} \cup
  {RNum(d) : d \in NumArgs} \cup {RNil}

\* NUM2DBL(other) succeeds on numbers only
IsNum(v) == v.k = "num"
IsMat(v) == v.k = "mat"

\* a scalar holding x in every component
ScalarAll(x) == <<x, x, x, x>>

\* the double x as the cv::Scalar the implicit conversion builds: (x, 0, 0, 0)
ScalarOf(x) == <<x, 0, 0, 0>>

\* cv::gemm accepts floating-point matrices only; C = A * B
Gemm(m, n) ==
  LET A == CopyData(m)
      B == CopyData(n)
      RECURSIVE Dot(_, _, _)
      Dot(i, j, k) == IF k = 0 THEN 0
                      ELSE Dot(i, j, k - 1) + (A[(i - 1) * m.cols + k] * B[(k - 1) * n.cols + j]) \div 2
  IN  [p \in 1..(m.rows * n.cols) |-> Dot(((p - 1) \div n.cols) + 1, ((p - 1) % n.cols) + 1, m.cols)]

GemmOk(m, n) ==
  /\ m.type = n.type /\ m.type \in {CV_32F, CV_64F}
  /\ m.cols = n.rows

\* + and - done in place on the receiver, as += and -= would
AddSubAssign(op, f) ==
  /\ alive /\ ncalls < MaxCalls
  /\ ncalls' = ncalls + 1
  /\ pre' = bufs
  /\ \E self \in Live, other \in {RNum(d) : d \in NumArgs} :
       LET m == obj2mat(self)
       IN  /\ bufs' = [bufs EXCEPT ![m.buf].data =
                         [k \in DOMAIN @ |-> ScalarKernel(f, depth(m.type), @[k], other.v[1])]]
           /\ last' = Call(op, self, <<other>>, "ok", self, <<>>, <<>>)
           /\ UNCHANGED <<objs, mats>>
  /\ UNCHANGED alive

\* + and -: matrix, scalar or number
AddSub(op, f) ==
  /\ alive /\ ncalls < MaxCalls
  /\ ncalls' = ncalls + 1
  /\ pre' = bufs
  /\ \E self \in Live, other \in Operands :
       LET m == obj2mat(self)
       IN  \/ /\ IsMat(other) /\ SameSizeType(m, obj2mat(other.v[1]))
              /\ WrapFresh(op, self, <<other>>, m.rows, m.cols, m.type, MatMat(f, m, obj2mat(other.v[1])))
           \/ /\ IsMat(other) /\ ~SameSizeType(m, obj2mat(other.v[1]))
              /\ Raise(op, self, <<other>>, "CvError")
           \/ /\ IsScalar(other) /\ ScalarFits(m)
              /\ WrapFresh(op, self, <<other>>, m.rows, m.cols, m.type, MatScalar(f, m, other.v))
           \/ /\ IsNum(other) /\ ScalarFits(m)
              /\ WrapFresh(op, self, <<other>>, m.rows, m.cols, m.type, MatScalar(f, m, ScalarOf(other.v[1])))
           \/ /\ IsScalar(other) \/ IsNum(other)
              /\ ~ScalarFits(m)
              /\ Raise(op, self, <<other>>, "CvError")
           \/ /\ ~IsMat(other) /\ ~IsScalar(other) /\ ~IsNum(other)
              /\ Raise(op, self, <<other>>, "TypeError")
  /\ UNCHANGED alive

rb_add == AddSub("+", "add")

rb_sub == AddSub("-", "sub")

\* *: matrix product or scaling by a number
rb_mul ==
  /\ alive /\ ncalls < MaxCalls
  /\ ncalls' = ncalls + 1
  /\ pre' = bufs
  /\ \E self \in Live, other \in Operands :
       LET m == obj2mat(self)
       IN  \/ /\ IsMat(other)
              /\ IF GemmOk(m, obj2mat(other.v[1]))
                 THEN WrapFresh("*", self, <<other>>, m.rows, obj2mat(other.v[1]).cols, m.type,
                                Gemm(m, obj2mat(other.v[1])))
                 ELSE Raise("*", self, <<other>>, "CvError")
           \/ /\ IsNum(other)
              /\ WrapFresh("*", self, <<other>>, m.rows, m.cols, m.type, MatScale("mul", m, other.v[1]))
           \/ /\ ~IsMat(other) /\ ~IsNum(other)
              /\ Raise("*", self, <<other>>, "TypeError")
  /\ UNCHANGED alive

\* /: per-element division by a matrix or by a number
rb_div ==
  /\ alive /\ ncalls < MaxCalls
  /\ ncalls' = ncalls + 1
  /\ pre' = bufs
  /\ \E self \in Live, other \in Operands :
       LET m == obj2mat(self)
       IN  \/ /\ IsMat(other) /\ SameSizeType(m, obj2mat(other.v[1]))
              /\ WrapFresh("/", self, <<other>>, m.rows, m.cols, m.type, MatMat("div", m, obj2mat(other.v[1])))
           \/ /\ IsMat(other) /\ ~SameSizeType(m, obj2mat(other.v[1]))
              /\ Raise("/", self, <<other>>, "CvError")
           \/ /\ IsNum(other)
              /\ WrapFresh("/", self, <<other>>, m.rows, m.cols, m.type, MatScale("div", m, other.v[1]))
           \/ /\ ~IsMat(other) /\ ~IsNum(other)
              /\ Raise("/", self, <<other>>, "TypeError")
  /\ UNCHANGED alive

\* -------------------------------------------------- bitwise operators
\* the optional mask argument: absent, or a matrix
Masks == {RNil} \cup {RMat(o) : o \in Live}

\* <<value, mask>>: a matrix, a Scalar, a number and nil without a mask, and
\* a Scalar under every mask
BitArgs ==
  {<<v, RNil>> : v \in Operands} \cup
  {<<RScalar(sc), k>> : sc \in OpScalars, k \in Masks}

\* cv::binary_op's demands on a mask: 8-bit, one channel, self's size
MaskOk(m, mask) ==
  \/ mask = RNil
  \/ /\ IsMat(mask)
     /\ LET k == obj2mat(mask.v[1])
        IN  k.type \in {CV_8U, CV_8S} /\ k.rows = m.rows /\ k.cols = m.cols

\* data computed under a mask: elements the mask leaves out stay 0 in the
\* freshly created destination
Masked(m, mask, data) ==
  IF mask = RNil THEN data
  ELSE LET K == CopyData(obj2mat(mask.v[1]))
           cn == channels(m.type)
       IN  [k \in DOMAIN data |-> IF K[((k - 1) \div cn) + 1] # 0 THEN data[k] ELSE 0]

\* the header allocated by retptr = new cv::Mat() is neither deleted nor
\* wrapped when a Ruby exception unwinds past the try block; val names it
RaiseLeaking(op, self, args, error) ==
  /\ last' = Call(op, self, args, error, 0, <<Len(mats) + 1>>, <<>>)
  /\ mats' = Append(mats, EmptyMat)
  /\ UNCHANGED <<objs, bufs>>

\* a failing call that allocated its output header and keeps it allocated
RaiseKept(op, self, args, error) ==
  /\ last' = Call(op, self, args, error, 0, <<Len(mats) + 1>>, <<>>)
  /\ mats' = Append(mats, EmptyMat)
  /\ UNCHANGED <<objs, bufs>>

\* the header allocated by retptr = new cv::Mat() is deleted, once, before the
\* error is raised: by the catch block, or by the delete before rb_raise
RaiseDeleted(op, self, args, error) ==
  /\ last' = Call(op, self, args, error, 0, <<Len(mats) + 1>>, <<>>)
  /\ mats' = Append(mats, [EmptyMat EXCEPT !.live = FALSE])
  /\ UNCHANGED <<objs, bufs>>

\* cv::Mat::isContinuous
isContinuous(m) == m.rows = 1 \/ m.step = m.cols * channels(m.type)

\* cv::checkScalar: may the matrix sc stand for a scalar next to an array of
\* type atype
checkScalar(sc, atype) ==
  /\ isContinuous(sc)
  /\ \/ sc.cols = 1 /\ sc.rows = 1
     \/ sc.cols = 1 /\ sc.rows = channels(atype)
     \/ sc.cols = channels(atype) /\ sc.rows = 1

\* cv::convertAndUnrollScalar: the scalar a matrix sc stands for, as doubles
UnrollScalar(sc, atype) ==
  LET S == CopyData(sc)
  IN  [c \in 1..channels(atype) |->
         ToDouble(depth(sc.type), IF sc.rows * sc.cols = 1 THEN S[1] ELSE S[c])]

\* cv::binary_op on two matrices: element by element when size and type
\* agree, else with the matrix that passes checkScalar as the scalar
BinaryOpMat(op, f, self, args, m, n, mask) ==
  IF SameSizeType(m, n)
  THEN IF MaskOk(m, mask)
       THEN WrapFresh(op, self, args, m.rows, m.cols, m.type, Masked(m, mask, MatMat(f, m, n)))
       ELSE RaiseDeleted(op, self, args, "CvError")
  ELSE IF checkScalar(m, n.type)
  THEN IF MaskOk(n, mask)
       THEN WrapFresh(op, self, args, n.rows, n.cols, n.type,
                      Masked(n, mask, MatScalar(f, n, UnrollScalar(m, n.type))))
       ELSE RaiseDeleted(op, self, args, "CvError")
  ELSE IF checkScalar(n, m.type)
  THEN IF MaskOk(m, mask)
       THEN WrapFresh(op, self, args, m.rows, m.cols, m.type,
                      Masked(m, mask, MatScalar(f, m, UnrollScalar(n, m.type))))
       ELSE RaiseDeleted(op, self, args, "CvError")
  ELSE RaiseDeleted(op, self, args, "CvError")

rb_bitwise_operation_internal(op, f) ==
  /\ alive /\ ncalls < MaxCalls
  /\ ncalls' = ncalls + 1
  /\ pre' = bufs
  /\ \E self \in Live, args \in BitArgs :
       LET m == obj2mat(self)
           value == args[1]
           mask == args[2]
       IN  \/ /\ IsMat(value)
              /\ BinaryOpMat(op, f, self, args, m, obj2mat(value.v[1]), mask)
           \/ /\ IsScalar(value) /\ ScalarFits(m) /\ MaskOk(m, mask)
              /\ WrapFresh(op, self, args, m.rows, m.cols, m.type,
                           Masked(m, mask, MatScalar(f, m, value.v)))
           \/ /\ IsScalar(value) /\ ~(ScalarFits(m) /\ MaskOk(m, mask))
              /\ RaiseDeleted(op, self, args, "CvError")
           \/ /\ ~IsMat(value) /\ ~IsScalar(value)
              /\ RaiseLeaking(op, self, args, "TypeError")
  /\ UNCHANGED alive

rb_bitwise_and == rb_bitwise_operation_internal("bitwise_and", "and")

rb_bitwise_or == rb_bitwise_operation_internal("bitwise_or", "or")

rb_bitwise_xor == rb_bitwise_operation_internal("bitwise_xor", "xor")

rb_bitwise_not ==
  /\ alive /\ ncalls < MaxCalls
  /\ ncalls' = ncalls + 1
  /\ pre' = bufs
  /\ \E self \in Live, mask \in Masks :
       LET m == obj2mat(self)
           A == CopyData(m)
       IN  \/ /\ MaskOk(m, mask)
              /\ WrapFresh("bitwise_not", self, <<mask>>, m.rows, m.cols, m.type,
                           Masked(m, mask, [k \in DOMAIN A |-> BitOp("xor", A[k], 255, 8)]))
           \/ /\ ~MaskOk(m, mask)
              /\ RaiseDeleted("bitwise_not", self, <<mask>>, "CvError")
  /\ UNCHANGED alive

\* ---------------------------------------------------------------- absdiff
rb_absdiff ==
  /\ alive /\ ncalls < MaxCalls
  /\ ncalls' = ncalls + 1
  /\ pre' = bufs
  /\ \E self \in Live, other \in Operands :
       LET m == obj2mat(self)
       IN  \/ /\ IsMat(other) /\ SameSizeType(m, obj2mat(other.v[1]))
              /\ WrapFresh("absdiff", self, <<other>>, m.rows, m.cols, m.type,
                           MatMat("absdiff", m, obj2mat(other.v[1])))
           \/ /\ IsMat(other) /\ ~SameSizeType(m, obj2mat(other.v[1]))
              /\ RaiseDeleted("absdiff", self, <<other>>, "CvError")
           \/ /\ IsScalar(other) /\ ScalarFits(m)
              /\ WrapFresh("absdiff", self, <<other>>, m.rows, m.cols, m.type,
                           MatScalar("absdiff", m, other.v))
           \/ /\ IsScalar(other) /\ ~ScalarFits(m)
              /\ RaiseDeleted("absdiff", self, <<other>>, "CvError")
           \/ /\ ~IsMat(other) /\ ~IsScalar(other)
              /\ RaiseDeleted("absdiff", self, <<other>>, "TypeError")
  /\ UNCHANGED alive

\* ------------------------------------------------------------------- diag
DiagArgs == {<<>>, <<1>>, <<-1>>}

\* cv::Mat::diag(d): a single-column header over the receiver's buffer
DiagHeader(m, d) ==
  LET cn == channels(m.type)
      len == IF d >= 0 THEN (IF m.cols - d < m.rows THEN m.cols - d ELSE m.rows)
             ELSE (IF m.rows + d < m.cols THEN m.rows + d ELSE m.cols)
  IN  [live |-> TRUE, rows |-> len, cols |-> 1, type |-> m.type, buf |-> m.buf,
       off |-> IF d >= 0 THEN m.off + d * cn ELSE m.off - d * m.step,
       step |-> m.step + (IF len > 1 THEN cn ELSE 0)]

rb_diag ==
  /\ alive /\ ncalls < MaxCalls
  /\ ncalls' = ncalls + 1
  /\ pre' = bufs
  /\ \E self \in Live, d \in DiagArgs :
       LET m == obj2mat(self)
           d_value == IF d = <<>> THEN 0 ELSE d[1]
       IN  /\ bufs' = [bufs EXCEPT ![m.buf].refcount = @ + 1]
           /\ mats' = Append(mats, DiagHeader(m, d_value))
           /\ objs' = Append(objs, mat2obj(Len(mats) + 1, "diag", self, NoRoi))
           /\ last' = Call("diag", self, <<d>>, "ok", Len(objs) + 1, <<>>, <<>>)
  /\ UNCHANGED alive

\* ------------------------------------------------------------------ cross
CrossArgs == {RMat(o) : o \in Live} \cup {RNil}

\* cv::Mat::cross: two 3-element floating-point vectors of one size and type
CrossOk(m, n) ==
  /\ SameSizeType(m, n)
  /\ (m.rows = 3 /\ m.cols = 1) \/ (m.cols * channels(m.type) = 3 /\ m.rows = 1)
  /\ depth(m.type) \in {CV_32F, CV_64F}

Cross(m, n) ==
  LET A == CopyData(m)
      B == CopyData(n)
  IN  << (A[2] * B[3] - A[3] * B[2]) \div 2,
         (A[3] * B[1] - A[1] * B[3]) \div 2,
         (A[1] * B[2] - A[2] * B[1]) \div 2 >>

rb_cross ==
  /\ alive /\ ncalls < MaxCalls
  /\ ncalls' = ncalls + 1
  /\ pre' = bufs
  /\ \E self \in Live, other \in CrossArgs :
       LET m == obj2mat(self)
       IN  \/ /\ ~IsMat(other)
              /\ Raise("cross", self, <<other>>, "TypeError")
           \/ /\ IsMat(other)
              /\ IF CrossOk(m, obj2mat(other.v[1]))
                 THEN WrapFresh("cross", self, <<other>>, m.rows, m.cols, m.type,
                                Cross(m, obj2mat(other.v[1])))
                 ELSE Raise("cross", self, <<other>>, "CvError")
  /\ UNCHANGED alive

\* ----------------------------------------------------------- add_weighted
\* <<alpha, beta, gamma, dtype>>
WeightedArgs ==
  { <<RNum(2), RNum(2), RNum(0), <<>>>>,       \* 1.0, 1.0, 0
    <<RNum(1), RNum(1), RNum(1), <<-1>>>>,     \* 0.5, 0.5, 0.5, dtype -1
    <<RNil, RNum(2), RNum(0), <<>>>> }

\* one component of cv::addWeighted
WeightedKernel(dp, a, alpha, b, beta, gamma) ==
  Saturate(dp, cvRound(a * alpha + b * beta + gamma))

\* the receiver is passed as src1 too: the code never reads self
rb_add_weighted ==
  /\ alive /\ ncalls < MaxCalls
  /\ ncalls' = ncalls + 1
  /\ pre' = bufs
  /\ \E self \in Live, src2 \in Live, w \in WeightedArgs :
       LET m == obj2mat(self)
           n == obj2mat(src2)
           args == <<self, w[1], src2, w[2], w[3], w[4]>>
           A == CopyData(m)
           B == CopyData(n)
       IN  \/ /\ ~(IsNum(w[1]) /\ IsNum(w[2]) /\ IsNum(w[3]))
              /\ RaiseLeaking("add_weighted", self, args, "TypeError")
           \/ /\ IsNum(w[1]) /\ IsNum(w[2]) /\ IsNum(w[3])
              /\ IF SameSizeType(m, n)
                 THEN WrapFresh("add_weighted", self, args, m.rows, m.cols, m.type,
                                [k \in DOMAIN A |->
                                   WeightedKernel(depth(m.type), A[k], w[1].v[1], B[k], w[2].v[1], w[3].v[1])])
                 ELSE RaiseDeleted("add_weighted", self, args, "CvError")
  /\ UNCHANGED alive

\* ------------------------------------------ convert_scale_abs, convert_to
\* <<alpha, beta>>, both optional
ScaleArgs ==
  { <<>>, <<RNum(4)>>, <<RNum(-2), RNum(1)>>, <<RScalar(<<2, 0, 0, 0>>)>> }

\* NIL_P(x) ? dflt : NUM2DBL(x) for the k-th optional argument
OptDbl(args, n, dflt) ==
  IF n > Len(args) THEN dflt ELSE IF args[n].k = "nil" THEN dflt ELSE args[n].v[1]
OptOk(args, n) == IF n > Len(args) THEN TRUE ELSE args[n].k \in {"nil", "num"}

rb_convert_scale_abs ==
  /\ alive /\ ncalls < MaxCalls
  /\ ncalls' = ncalls + 1
  /\ pre' = bufs
  /\ \E self \in Live, args \in ScaleArgs :
       LET m == obj2mat(self)
           A == CopyData(m)
           alpha_value == OptDbl(args, 1, 2)
           beta_value == OptDbl(args, 2, 0)
       IN  \/ /\ ~(OptOk(args, 1) /\ OptOk(args, 2))
              /\ Raise("convert_scale_abs", self, args, "TypeError")
           \/ /\ OptOk(args, 1) /\ OptOk(args, 2)
              /\ WrapFresh("convert_scale_abs", self, args, m.rows, m.cols,
                           CV_8U + 8 * (channels(m.type) - 1),
                           [k \in DOMAIN A |->
                              Saturate(CV_8U, cvRound(Abs(A[k] * alpha_value + beta_value)))])
  /\ UNCHANGED alive

\* <<rtype, alpha, beta>>: rtype is required, yet may be nil or left out
ConvertArgs ==
  { <<>>, <<RNum(-2)>>, <<RNum(-2), RNum(4)>>, <<RNum(0), RNum(4)>>, <<RNum(0), RNum(1), RNum(3)>>,
    <<RNil>>, <<RNum(0), RScalar(<<2, 0, 0, 0>>)>> }

\* a double as stored in a component of depth dp by convertTo
ToStored(dp, d) ==
  IF dp \in IntDepths THEN Saturate(dp, cvRound(d))
  ELSE IF dp = CV_32F THEN RoundF32(d) ELSE d

\* as ConvertDepth, but a negative rtype is not taken to mean the depth of m
ConvertDepth_as_requested(m, rtype) == depth(rtype)

\* the depth convertTo gives its output: that of m for a negative rtype
ConvertDepth(m, rtype) == IF rtype < 0 THEN depth(m.type) ELSE depth(rtype)

rb_convert_to ==
  /\ alive /\ ncalls < MaxCalls
  /\ ncalls' = ncalls + 1
  /\ pre' = bufs
  /\ \E self \in Live, args \in ConvertArgs :
       LET m == obj2mat(self)
           A == CopyData(m)
           alpha_value == OptDbl(args, 2, 2)
           beta_value == OptDbl(args, 3, 0)
           rtype == IF IsNum(args[1]) THEN Trunc(args[1].v[1]) ELSE 0
           ddepth == ConvertDepth(m, rtype)
       IN  \* rb_scan_args "12": rtype is required
           IF args = <<>> THEN Raise("convert_to", self, args, "ArgumentError")
           ELSE
           \/ /\ ~(OptOk(args, 2) /\ OptOk(args, 3))
              /\ Raise("convert_to", self, args, "TypeError")
           \/ /\ OptOk(args, 2) /\ OptOk(args, 3) /\ ~IsNum(args[1])
              /\ RaiseLeaking("convert_to", self, args, "TypeError")
           \/ /\ OptOk(args, 2) /\ OptOk(args, 3) /\ IsNum(args[1])
              /\ IF ddepth \in SupportedDepths /\ depth(m.type) \in SupportedDepths
                 THEN WrapFresh("convert_to", self, args, m.rows, m.cols,
                                ddepth + 8 * (channels(m.type) - 1),
                                [k \in DOMAIN A |->
                                   ToStored(ddepth, (ToDouble(depth(m.type), A[k]) * alpha_value) \div 2
                                                      + beta_value)])
                 ELSE RaiseDeleted("convert_to", self, args, "CvError")
  /\ UNCHANGED alive

\* ------------------------------------------------------------ set_identity
\* the optional s: absent, Scalar(3, 5, 7, 9), or a number, which is no Scalar
IdentityArgs == {<<>>, <<RScalar(<<6, 10, 14, 18>>)>>, <<RNum(4)>>}

\* the buffer of m after every element of m is set to 0 and, when diag is
\* TRUE, every element (i, i) to the Scalar sv converted to m's depth; the
\* bytes of the buffer outside m stay as they are
IdentityData(m, sv, diag) ==
  LET cn == channels(m.type)
      D == bufs[m.buf].data
  IN  [k \in DOMAIN D |->
         LET rel == k - 1 - m.off
             i == rel \div m.step
             j == (rel % m.step) \div cn
             c == (rel % m.step) % cn
         IN  IF rel >= 0 /\ i < m.rows /\ j < m.cols
             THEN (IF diag /\ i = j THEN ToStored(depth(m.type), sv[c + 1]) ELSE 0)
             ELSE D[k]]

\* set_identity that writes the diagonal and leaves the other elements
rb_set_identity_diag_only ==
  /\ alive /\ ncalls < MaxCalls
  /\ ncalls' = ncalls + 1
  /\ pre' = bufs
  /\ \E self \in Live :
       LET m == obj2mat(self)
           D == IdentityData(m, <<2, 0, 0, 0>>, TRUE)
       IN  /\ bufs' = [bufs EXCEPT ![m.buf].data =
                         [k \in DOMAIN D |-> IF D[k] = 0 THEN bufs[m.buf].data[k] ELSE D[k]]]
           /\ last' = Call("set_identity", self, <<>>, "ok", self, <<>>, <<>>)
  /\ UNCHANGED <<objs, mats, alive>>

\* cv::setIdentity(m, s): m = Scalar(0), then m.diag() = s, which throws for
\* a matrix of more than four channels or of an unknown depth
rb_set_identity ==
  /\ alive /\ ncalls < MaxCalls
  /\ ncalls' = ncalls + 1
  /\ pre' = bufs
  /\ \E self \in Live, args \in IdentityArgs :
       LET m == obj2mat(self)
           s_value == IF args = <<>> THEN <<2, 0, 0, 0>> ELSE args[1].v
           converts == IF args = <<>> THEN TRUE ELSE IsScalar(args[1])
       IN  \/ /\ ~converts
              /\ last' = Call("set_identity", self, args, "TypeError", 0, <<>>, <<>>)
              /\ UNCHANGED bufs
           \/ /\ converts
              /\ ScalarFits(m) /\ depth(m.type) \in SupportedDepths
              /\ bufs' = [bufs EXCEPT ![m.buf].data = IdentityData(m, s_value, TRUE)]
              /\ last' = Call("set_identity", self, args, "ok", self, <<>>, <<>>)
           \/ /\ converts
              /\ ~(ScalarFits(m) /\ depth(m.type) \in SupportedDepths)
              /\ bufs' = [bufs EXCEPT ![m.buf].data = IdentityData(m, s_value, FALSE)]
              /\ last' = Call("set_identity", self, args, "CvError", 0, <<>>, <<>>)
  /\ UNCHANGED <<objs, mats, alive>>

\* ----------------------------------------------------------------- set_to
\* <<value, mask>>, mask optional: Scalar(5.5, 7, 9, 11) with no mask, with
\* nil and with every matrix as the mask; a value that is no Scalar and a
\* mask that is no matrix
SetToArgs ==
  { <<>>, <<RNil>>, <<RScalar(<<11, 14, 18, 22>>)>>, <<RScalar(<<11, 14, 18, 22>>), RNil>>,
    <<RScalar(<<11, 14, 18, 22>>), RNum(2)>> } \cup
  { <<RScalar(<<11, 14, 18, 22>>), RMat(o)>> : o \in Live }

\* the CV_Assert of cv::Mat::setTo on the mask
MaskFits(m, mask) ==
  \/ empty(mask)
  \/ /\ depth(mask.type) = CV_8U
     /\ channels(mask.type) \in {1, channels(m.type)}
     /\ mask.rows = m.rows /\ mask.cols = m.cols

\* does the mask let component c (from 0) of element (i, j) be set: with a
\* mask of one channel the element's mask value decides, with a mask of as
\* many channels as the matrix the component's own
MaskAt(mask, i, j, c) ==
  LET mcn == channels(mask.type)
  IN  bufs[mask.buf].data[CompPos(mask, i, j, IF mcn = 1 THEN 0 ELSE c)] # 0

\* the buffer of m after m.setTo(sv, mask): the components of m the mask
\* lets through (all of them when masked is FALSE) hold sv converted to m's
\* depth, the rest of the buffer is as it was
SetToData(m, sv, masked, mask) ==
  LET cn == channels(m.type)
      D == bufs[m.buf].data
  IN  [k \in DOMAIN D |->
         LET rel == k - 1 - m.off
             i == rel \div m.step
             j == (rel % m.step) \div cn
             c == (rel % m.step) % cn
         IN  IF rel >= 0 /\ i < m.rows /\ j < m.cols /\ (IF masked THEN MaskAt(mask, i, j, c) ELSE TRUE)
             THEN ToStored(depth(m.type), sv[c + 1])
             ELSE D[k]]

\* as SetToResult, but the call returns its receiver
SetToResult_self(self, args, data) ==
  /\ bufs' = [bufs EXCEPT ![obj2mat(self).buf].data = data]
  /\ last' = Call("set_to", self, args, "ok", self, <<>>, <<>>)
  /\ UNCHANGED <<objs, mats>>

\* tmp = selfptr->setTo(...); dstptr = new cv::Mat(tmp): the receiver's
\* buffer holds data, and a new object wraps a copy of the receiver's header
SetToResult(self, args, data) ==
  /\ bufs' = [bufs EXCEPT ![obj2mat(self).buf] = [refcount |-> @.refcount + 1, data |-> data]]
  /\ mats' = Append(mats, obj2mat(self))
  /\ objs' = Append(objs, mat2obj(Len(mats) + 1, "set_to", self, NoRoi))
  /\ last' = Call("set_to", self, args, "ok", Len(objs) + 1, <<>>, <<>>)

rb_set_to ==
  /\ alive /\ ncalls < MaxCalls
  /\ ncalls' = ncalls + 1
  /\ pre' = bufs
  /\ \E self \in Live, args \in SetToArgs :
       LET m == obj2mat(self)
           masked == IF Len(args) < 2 THEN FALSE ELSE args[2].k # "nil"
           mask == IF masked /\ IsMat(args[2]) THEN obj2mat(args[2].v[1]) ELSE EmptyMat
       IN  \* rb_scan_args "11": value is required
           IF args = <<>> THEN Raise("set_to", self, args, "ArgumentError") /\ UNCHANGED alive
           ELSE IF ~IsScalar(args[1]) \/ (masked /\ ~IsMat(args[2]))
           THEN Raise("set_to", self, args, "TypeError") /\ UNCHANGED alive
           ELSE IF empty(m)
           THEN WrapEmpty("set_to", self, args, m.rows, m.cols, m.type) /\ UNCHANGED alive
           ELSE IF ~ScalarFits(m) \/ ~MaskFits(m, mask)
           THEN Raise("set_to", self, args, "CvError") /\ UNCHANGED alive
           ELSE IF depth(m.type) \notin SupportedDepths
           \* no conversion function for the depth: the call through the null
           \* pointer ends the process, or a checking build throws
           THEN \E outcome \in {"crash", "throw"} :
                  /\ last' = Call("set_to", self, args,
                                  IF outcome = "crash" THEN "crash" ELSE "CvError", 0, <<>>, <<>>)
                  /\ alive' = (outcome = "throw")
                  /\ UNCHANGED <<objs, mats, bufs>>
           ELSE SetToResult(self, args, SetToData(m, args[1].v, masked /\ ~empty(mask), mask))
                /\ UNCHANGED alive

\* ------------------------------------------------------------------ split
\* plane c of m: a one-channel copy of its c-th components
Plane(m, c) ==
  LET A == CopyData(m)
      cn == channels(m.type)
  IN  [k \in 1..(m.rows * m.cols) |-> A[(k - 1) * cn + c]]

rb_split ==
  /\ alive /\ ncalls < MaxCalls
  /\ ncalls' = ncalls + 1
  /\ pre' = bufs
  /\ \E self \in Live :
       LET m == obj2mat(self)
           cn == channels(m.type)
       IN  \/ /\ ~empty(m)
              /\ bufs' = bufs \o [c \in 1..cn |-> [refcount |-> 1, data |-> Plane(m, c)]]
              /\ mats' = mats \o [c \in 1..cn |->
                                    [live |-> TRUE, rows |-> m.rows, cols |-> m.cols, type |-> depth(m.type),
                                     buf |-> Len(bufs) + c, off |-> 0, step |-> m.cols]]
              /\ objs' = objs \o [c \in 1..cn |-> mat2obj(Len(mats) + c, "new", 0, NoRoi)]
              /\ last' = Call("split", self, <<>>, "ok", Len(objs) + 1,
                              [c \in 1..cn |-> Len(objs) + c], <<>>)
              /\ UNCHANGED alive
           \* cv::split leaves the vector empty for an empty matrix, and the
           \* loop still reads splitted[0]: undefined behaviour.  The read
           \* goes through a null pointer and ends the process, or the build
           \* lets it pass and the entries wrap headers of arbitrary content
           \* (written as empty headers of an arbitrary type)
           \/ /\ empty(m)
              /\ \E outcome \in {"crash", "garbage"}, g \in {CV_8U, CV_64F} :
                   IF outcome = "crash"
                   THEN /\ g = CV_8U
                        /\ last' = Call("split", self, <<>>, "crash", 0, <<>>, <<>>)
                        /\ alive' = FALSE
                        /\ UNCHANGED <<objs, mats, bufs>>
                   ELSE /\ mats' = mats \o [c \in 1..cn |->
                                             [live |-> TRUE, rows |-> 0, cols |-> 0, type |-> g,
                                              buf |-> 0, off |-> 0, step |-> 0]]
                        /\ objs' = objs \o [c \in 1..cn |-> mat2obj(Len(mats) + c, "new", 0, NoRoi)]
                        /\ last' = Call("split", self, <<>>, "garbage", Len(objs) + 1,
                                        [c \in 1..cn |-> Len(objs) + c], <<>>)
                        /\ UNCHANGED <<bufs, alive>>

\* ------------------------------------------------ merge, hconcat, vconcat
\* the src argument: arrays of one or two matrices, an array of a matrix
\* and something that is no matrix (written 0), or no array at all
ArrayArgs ==
  {<<"ary", <<a>>>> : a \in Live} \cup {<<"ary", <<a, b>>>> : a, b \in Live} \cup
  {<<"ary", <<a, 0>>>> : a \in Live} \cup {<<"nil", <<>>>>}

\* as MergeOk, but hconcat and vconcat compare the extent only, not the type
MergeOk_extent_only(f, M) ==
  \A i \in DOMAIN M :
    CASE f = "merge" -> M[i].rows = M[1].rows /\ M[i].cols = M[1].cols /\ depth(M[i].type) = depth(M[1].type)
      [] f = "hconcat" -> M[i].rows = M[1].rows
      [] OTHER -> M[i].cols = M[1].cols

\* what the three cv functions demand of their inputs
MergeOk(f, M) ==
  \A i \in DOMAIN M :
    CASE f = "merge" -> M[i].rows = M[1].rows /\ M[i].cols = M[1].cols /\ depth(M[i].type) = depth(M[1].type)
      [] f = "hconcat" -> M[i].rows = M[1].rows /\ M[i].type = M[1].type
      [] OTHER -> M[i].cols = M[1].cols /\ M[i].type = M[1].type

\* the sum over the inputs of their channels, their cols or their rows
RECURSIVE SumOver(_, _)
SumOver(M, what) ==
  IF M = <<>> THEN 0
  ELSE SumOver(Tail(M), what)
       + (CASE what = "channels" -> channels(Head(M).type)
            [] what = "cols" -> Head(M).cols
            [] OTHER -> Head(M).rows)

\* row r (from 0) of m as a sequence of components
RowOf(m, r) ==
  LET w == m.cols * channels(m.type)
  IN  SubSeq(CopyData(m), r * w + 1, (r + 1) * w)

\* element e (from 0) of m as a sequence of components
ElemOf(m, e) ==
  LET cn == channels(m.type)
  IN  SubSeq(CopyData(m), e * cn + 1, (e + 1) * cn)

RECURSIVE Flatten(_)
Flatten(ss) == IF ss = <<>> THEN <<>> ELSE Head(ss) \o Flatten(Tail(ss))

\* header fields and data of the merged matrix
Merged(f, M) ==
  CASE f = "merge" ->
       [rows |-> M[1].rows, cols |-> M[1].cols,
        type |-> depth(M[1].type) + 8 * (SumOver(M, "channels") - 1),
        data |-> Flatten([e \in 1..(M[1].rows * M[1].cols) |->
                            Flatten([i \in DOMAIN M |-> ElemOf(M[i], e - 1)])])]
  [] f = "hconcat" ->
       [rows |-> M[1].rows, cols |-> SumOver(M, "cols"), type |-> M[1].type,
        data |-> Flatten([r \in 1..M[1].rows |->
                            Flatten([i \in DOMAIN M |-> RowOf(M[i], r - 1)])])]
  [] OTHER ->
       [rows |-> SumOver(M, "rows"), cols |-> M[1].cols, type |-> M[1].type,
        data |-> Flatten([i \in DOMAIN M |-> CopyData(M[i])])]

\* matrixes.push_back(*tmp): a header copy holds a reference to the data
RECURSIVE Retain(_, _)
Retain(bs, M) ==
  IF M = <<>> THEN bs
  ELSE Retain(IF Head(M).buf = 0 THEN bs ELSE [bs EXCEPT ![Head(M).buf].refcount = @ + 1],
              Tail(M))

\* a raise while the vector matrixes holds the header copies M: obj2mat
\* raised TypeError in the loop, or merge_func threw and dstptr was deleted
\* in the catch block.  The raise leaves the function by longjmp past the
\* vector; on builds whose longjmp does not unwind, the copies are never
\* destroyed
RaiseCopies(f, src, M, error) ==
  \E unwound \in BOOLEAN :
    /\ last' = Call(f, 0, src, error, 0,
                    IF error = "CvError" THEN <<Len(mats) + 1>> ELSE <<>>, <<>>)
    /\ mats' = mats \o (IF error = "CvError" THEN <<[EmptyMat EXCEPT !.live = FALSE]>> ELSE <<>>)
                    \o (IF unwound THEN <<>> ELSE M)
    /\ bufs' = IF unwound THEN bufs ELSE Retain(bufs, M)
    /\ UNCHANGED objs

rb_merge_array_internal(f) ==
  /\ alive /\ ncalls < MaxCalls
  /\ ncalls' = ncalls + 1
  /\ pre' = bufs
  /\ \E src \in ArrayArgs :
       LET bad == {i \in DOMAIN src[2] : src[2][i] = 0}
           pushed == IF bad = {} THEN src[2]
                     ELSE SubSeq(src[2], 1, (CHOOSE i \in bad : \A j \in bad : i <= j) - 1)
           M == [i \in DOMAIN pushed |-> obj2mat(pushed[i])]
           R == Merged(f, M)
       IN  \/ /\ src[1] # "ary"
              /\ Raise(f, 0, src, "TypeError")
           \/ /\ src[1] = "ary" /\ bad # {}
              /\ RaiseCopies(f, src, M, "TypeError")
           \/ /\ src[1] = "ary" /\ bad = {} /\ MergeOk(f, M) /\ R.rows * R.cols > 0
              /\ WrapFresh(f, 0, src, R.rows, R.cols, R.type, R.data)
           \/ /\ src[1] = "ary" /\ bad = {} /\ MergeOk(f, M) /\ R.rows * R.cols = 0
              /\ WrapEmpty(f, 0, src, R.rows, R.cols, R.type)
           \/ /\ src[1] = "ary" /\ bad = {} /\ ~MergeOk(f, M)
              /\ RaiseCopies(f, src, M, "CvError")
  /\ UNCHANGED alive

rb_merge == rb_merge_array_internal("merge")

rb_hconcat == rb_merge_array_internal("hconcat")

rb_vconcat == rb_merge_array_internal("vconcat")

\* ================================================================ imgproc
\* THRESH_BINARY .. THRESH_TOZERO_INV are 0 .. 4
THRESH_MASK == 7
THRESH_OTSU == 8
THRESH_TRIANGLE == 16

\* the call returned a matrix made by an OpenCV function given kern
WrapKernel(op, self, args, kern, val, rows, cols, type, data) ==
  /\ bufs' = Append(bufs, [refcount |-> 1, data |-> data])
  /\ mats' = Append(mats, [live |-> TRUE, rows |-> rows, cols |-> cols, type |-> type,
                           buf |-> Len(bufs) + 1, off |-> 0, step |-> cols * channels(type)])
  /\ objs' = Append(objs, mat2obj(Len(mats) + 1, "new", 0, NoRoi))
  /\ last' = [Call(op, self, args, "ok", Len(objs) + 1, val, <<>>) EXCEPT !.kern = kern]

\* the OpenCV function given kern threw; the catch block deleted the output
RaiseKernel(op, self, args, kern) ==
  /\ last' = [Call(op, self, args, "CvError", 0, <<Len(mats) + 1>>, <<>>) EXCEPT !.kern = kern]
  /\ mats' = Append(mats, [EmptyMat EXCEPT !.live = FALSE])
  /\ UNCHANGED <<objs, bufs>>

\* ------------------------------------------------------------ threshold
\* number of components of A equal to i, at most i, and their sum
HistAt(A, i) == Cardinality({k \in DOMAIN A : A[k] = i})
CountUpTo(A, i) == Cardinality({k \in DOMAIN A : A[k] <= i})

RECURSIVE SumUpTo(_, _)
SumUpTo(A, i) ==
  IF A = <<>> THEN 0
  ELSE (IF Head(A) <= i THEN Head(A) ELSE 0) + SumUpTo(Tail(A), i)

\* getThreshVal_Otsu_8u: the first level i that maximizes the variance
\* between the classes {<= i} and {> i}, q1 q2 (mu1 - mu2)^2, computed here
\* in exact arithmetic as OtsuNum / (OtsuDen N^2); 0 when no level separates
OtsuNum(A, i) ==
  LET c1 == CountUpTo(A, i)
      s1 == SumUpTo(A, i)
  IN  (s1 * (Len(A) - c1) - (SumUpTo(A, 255) - s1) * c1) * (s1 * (Len(A) - c1) - (SumUpTo(A, 255) - s1) * c1)
OtsuDen(A, i) == CountUpTo(A, i) * (Len(A) - CountUpTo(A, i))

getThreshVal_Otsu_8u(A) ==
  LET Levels == {A[k] : k \in DOMAIN A}
      Split == {i \in Levels : CountUpTo(A, i) < Len(A)}
      Best == {i \in Split : \A j \in Split :
                 OtsuNum(A, i) * OtsuDen(A, j) >= OtsuNum(A, j) * OtsuDen(A, i)}
  IN  IF Split = {} THEN 0 ELSE CHOOSE i \in Best : \A j \in Best : i <= j

\* getThreshVal_Triangle_8u, the search loop: the first level i in
\* left_bound + 1 .. max_ind whose distance max * i + (left_bound - max_ind) * h[i]
\* from the line is positive and the largest, minus 1; left_bound - 1 when
\* no distance is positive.  h is the histogram, reversed when isflipped
TriangleDist(A, isflipped, left_bound, max_ind, max, i) ==
  max * i + (left_bound - max_ind) * HistAt(A, IF isflipped THEN 255 - i ELSE i)

TriangleSearch(A, isflipped, left_bound, max_ind, max) ==
  LET Far == {i \in (left_bound + 1)..max_ind :
                /\ TriangleDist(A, isflipped, left_bound, max_ind, max, i) > 0
                /\ \A j \in (left_bound + 1)..max_ind :
                     TriangleDist(A, isflipped, left_bound, max_ind, max, i)
                       >= TriangleDist(A, isflipped, left_bound, max_ind, max, j)}
  IN  (IF Far = {} THEN left_bound ELSE CHOOSE i \in Far : \A j \in Far : i <= j) - 1

\* getThreshVal_Triangle_8u: the bounds of the histogram, its peak, the
\* flip that puts the longer tail on the left, then the search
getThreshVal_Triangle_8u(A) ==
  LET Levels == {A[k] : k \in DOMAIN A}
      lo == CHOOSE i \in Levels : \A j \in Levels : i <= j
      hi == CHOOSE i \in Levels : \A j \in Levels : i >= j
      left0 == IF lo > 0 THEN lo - 1 ELSE 0
      right0 == IF hi < 255 THEN hi + 1 ELSE 255
      max == HistAt(A, CHOOSE i \in Levels : \A j \in Levels : HistAt(A, i) >= HistAt(A, j))
      mi0 == CHOOSE i \in Levels : HistAt(A, i) = max /\ \A j \in Levels : HistAt(A, j) = max => i <= j
      isflipped == mi0 - left0 < right0 - mi0
      Found == { IF fl THEN 255 - TriangleSearch(B, fl, lb, mi, mx)
                 ELSE TriangleSearch(B, fl, lb, mi, mx) :
                   B \in {A}, fl \in {isflipped},
                   lb \in {IF isflipped THEN 255 - right0 ELSE left0},
                   mi \in {IF isflipped THEN 255 - mi0 ELSE mi0}, mx \in {max} }
  IN  CHOOSE thresh \in Found : TRUE

\* thresh_8u: one component under threshold type 0 .. 4
thresh_8u(v, type, ithresh, imaxval) ==
  CASE type = 0 -> IF v > ithresh THEN imaxval ELSE 0
    [] type = 1 -> IF v > ithresh THEN 0 ELSE imaxval
    [] type = 2 -> IF v > ithresh THEN ithresh ELSE v
    [] type = 3 -> IF v > ithresh THEN v ELSE 0
    [] OTHER -> IF v > ithresh THEN 0 ELSE v

\* cv::threshold on an 8-bit matrix m: whether it returns, the threshold it
\* returns (a double) and the data of dst
cv_threshold(m, thresh, maxval, threshold_type) ==
  LET A == CopyData(m)
      automatic_thresh == threshold_type - (threshold_type % (THRESH_MASK + 1))
      type == threshold_type % (THRESH_MASK + 1)
      t == CASE automatic_thresh = THRESH_OTSU -> 2 * getThreshVal_Otsu_8u(A)
             [] automatic_thresh = THRESH_TRIANGLE -> 2 * getThreshVal_Triangle_8u(A)
             [] OTHER -> thresh
      ithresh == t \div 2
      imaxval == Saturate(CV_8U, IF type = 2 THEN ithresh ELSE cvRound(maxval))
      fill == CASE type = 0 -> IF ithresh >= 255 THEN 0 ELSE imaxval
                [] type = 1 -> IF ithresh >= 255 THEN imaxval ELSE 0
                [] OTHER -> 0
  IN  IF \/ automatic_thresh = THRESH_OTSU + THRESH_TRIANGLE
         \/ automatic_thresh \in {THRESH_OTSU, THRESH_TRIANGLE} /\ m.type # CV_8U
      THEN [ok |-> FALSE, ret |-> 0, data |-> <<>>]
      ELSE IF ithresh < 0 \/ ithresh >= 255
      THEN [ok |-> TRUE, ret |-> 2 * ithresh,
            data |-> IF \/ type \in {0, 1}
                        \/ type \in {2, 4} /\ ithresh < 0
                        \/ type = 3 /\ ithresh >= 255
                     THEN [k \in DOMAIN A |-> fill] ELSE A]
      ELSE IF type > 4
      THEN [ok |-> FALSE, ret |-> 0, data |-> <<>>]
      ELSE [ok |-> TRUE, ret |-> 2 * ithresh,
            data |-> [k \in DOMAIN A |-> thresh_8u(A[k], type, ithresh, imaxval)]]

\* <<threshold, max_value, threshold_type>>
ThresholdArgs ==
  { <<RNum(3), RNum(510), RNum(2 * ty)>> : ty \in {0, 3, 7, THRESH_OTSU, THRESH_OTSU + 1,
                                                   THRESH_TRIANGLE, THRESH_OTSU + THRESH_TRIANGLE, 32} } \cup
  { <<RNum(3), RNum(510), RNil>>, <<RNil, RNum(510), RNum(0)>> }

\* as OptimalReturned, but for the Otsu flag only
OptimalReturned_otsu_only(threshold_type_value) ==
  (threshold_type_value \div THRESH_OTSU) % 2 = 1

\* (threshold_type_value & cv::THRESH_OTSU) || (threshold_type_value & cv::THRESH_TRIANGLE)
OptimalReturned(threshold_type_value) ==
  \/ (threshold_type_value \div THRESH_OTSU) % 2 = 1
  \/ (threshold_type_value \div THRESH_TRIANGLE) % 2 = 1

\* threshold returns dst, or the pair of dst and the threshold (val)
rb_threshold ==
  /\ alive /\ ncalls < MaxCalls
  /\ ncalls' = ncalls + 1
  /\ pre' = bufs
  /\ \E self \in Live, args \in ThresholdArgs :
       LET m == obj2mat(self)
           threshold_type_value == IF IsNum(args[3]) THEN Trunc(args[3].v[1]) ELSE 0
           r == cv_threshold(m, args[1].v[1], args[2].v[1], threshold_type_value)
           kern == <<args[1].v[1], args[2].v[1], threshold_type_value>>
       IN  IF ~IsNum(args[3]) THEN Raise("threshold", self, args, "TypeError")
           ELSE IF ~IsNum(args[1]) \/ ~IsNum(args[2])
           THEN RaiseLeaking("threshold", self, args, "TypeError")
           ELSE IF ~r.ok THEN RaiseKernel("threshold", self, args, kern)
           ELSE WrapKernel("threshold", self, args, kern,
                           IF OptimalReturned(threshold_type_value) THEN <<r.ret>> ELSE <<>>,
                           m.rows, m.cols, m.type, r.data)
  /\ UNCHANGED alive

\* --------------------------------------------------------------- resize
INTER_NEAREST == 0
INTER_LINEAR == 1

\* a Ruby Cv::Size
RSize(width, height) == [k |-> "size", v |-> <<width, height>>]
IsSize(v) == v.k = "size"

\* component c (from 0) of element (y, x) of the continuous data A of a
\* matrix of cols columns and cn channels
SrcAt(A, cols, cn, y, x, c) == A[(y * cols + x) * cn + c + 1]

\* resizeNN: the source index for destination index i, s source and d
\* destination elements along the axis
NearestIndex(s, d, i) == IF (i * s) \div d < s - 1 THEN (i * s) \div d ELSE s - 1

\* resizeGeneric_ for INTER_LINEAR: the two source indices for destination
\* index i and their weights, which add up to 2048
LinearTap(s, d, i) ==
  LET num == (2 * i + 1) * s - d         \* fx = num / (2 d)
      sx == num \div (2 * d)
      clamped == sx < 0 \/ sx >= s - 1
      i0 == IF sx < 0 THEN 0 ELSE IF sx >= s - 1 THEN s - 1 ELSE sx
      c1 == IF clamped THEN 0 ELSE RoundRatio((num - sx * 2 * d) * 2048, 2 * d)
  IN  [i0 |-> i0, i1 |-> IF i0 + 1 < s THEN i0 + 1 ELSE s - 1, c0 |-> 2048 - c1, c1 |-> c1]

\* HResizeLinear then VResizeLinear on 8-bit data, in fixed point
LinearAt(A, rows, cols, cn, h, w, y, x, c) ==
  LET tx == LinearTap(cols, w, x)
      ty == LinearTap(rows, h, y)
      S0 == SrcAt(A, cols, cn, ty.i0, tx.i0, c) * tx.c0 + SrcAt(A, cols, cn, ty.i0, tx.i1, c) * tx.c1
      S1 == SrcAt(A, cols, cn, ty.i1, tx.i0, c) * tx.c0 + SrcAt(A, cols, cn, ty.i1, tx.i1, c) * tx.c1
  IN  (((ty.c0 * (S0 \div 16)) \div 65536) + ((ty.c1 * (S1 \div 16)) \div 65536) + 2) \div 4

\* resizeAreaFast_ for a scale of 2 along both axes
AreaFastAt(A, cols, cn, y, x, c) ==
  (SrcAt(A, cols, cn, 2 * y, 2 * x, c) + SrcAt(A, cols, cn, 2 * y, 2 * x + 1, c)
   + SrcAt(A, cols, cn, 2 * y + 1, 2 * x, c) + SrcAt(A, cols, cn, 2 * y + 1, 2 * x + 1, c) + 2) \div 4

\* cv::resize(src, dst, dsize, fx, fy, interpolation) on a non-empty 8-bit
\* matrix, for the two methods the calls below can select: whether it
\* returns, and the extent and data of dst
cv_resize(m, dsize, inv_scale_x, inv_scale_y, interpolation) ==
  LET A == CopyData(m)
      cn == channels(m.type)
      w == IF dsize[1] * dsize[2] = 0 THEN cvRound(m.cols * inv_scale_x) ELSE dsize[1]
      h == IF dsize[1] * dsize[2] = 0 THEN cvRound(m.rows * inv_scale_y) ELSE dsize[2]
      Value(y, x, c) ==
        IF interpolation = INTER_NEAREST
        THEN SrcAt(A, m.cols, cn, NearestIndex(m.rows, h, y), NearestIndex(m.cols, w, x), c)
        ELSE IF m.cols = 2 * w /\ m.rows = 2 * h
        THEN AreaFastAt(A, m.cols, cn, y, x, c)
        ELSE LinearAt(A, m.rows, m.cols, cn, h, w, y, x, c)
  IN  IF \/ dsize[1] * dsize[2] = 0 /\ ~(inv_scale_x > 0 /\ inv_scale_y > 0)
         \/ w * h <= 0
      THEN [ok |-> FALSE, rows |-> 0, cols |-> 0, data |-> <<>>]
      ELSE [ok |-> TRUE, rows |-> h, cols |-> w,
            data |-> [k \in 1..(h * w * cn) |->
                        Value((k - 1) \div (w * cn), ((k - 1) % (w * cn)) \div cn, (k - 1) % cn)]]

\* <<size, inv_scale_x, inv_scale_y, interpolation>>, the last three
\* optional.  The second argument is written as the documentation has it,
\* an interpolation method, in the calls with two arguments
ResizeArgs ==
  { <<>>, <<RNil>>,
    <<RSize(1, 1)>>, <<RSize(1, 1), RNum(2 * INTER_NEAREST)>>, <<RSize(2, 1), RNum(2 * INTER_LINEAR)>>,
    <<RSize(1, 1), RNil, RNil, RNum(2 * INTER_NEAREST)>>,
    <<RSize(0, 0)>>, <<RSize(0, 0), RNum(2 * INTER_LINEAR)>>, <<RSize(0, 0), RNum(1), RNum(1)>>,
    <<RSize(1, 2), RScalar(<<2, 0, 0, 0>>)>> }

\* NIL_P(interpolation) ? CV_INTER_LINEAR : NUM2INT(interpolation), where
\* interpolation is the fourth argument
ResizeMethod(args) ==
  IF Len(args) < 4 THEN INTER_LINEAR
  ELSE IF args[4].k = "nil" THEN INTER_LINEAR ELSE Trunc(args[4].v[1])

rb_resize ==
  /\ alive /\ ncalls < MaxCalls
  /\ ncalls' = ncalls + 1
  /\ pre' = bufs
  /\ \E self \in Live, args \in ResizeArgs :
       LET m == obj2mat(self)
           sx == OptDbl(args, 2, 0)
           sy == OptDbl(args, 3, 0)
           method == ResizeMethod(args)
           kern == <<args[1].v[1], args[1].v[2], sx, sy, method>>
           r == cv_resize(m, args[1].v, sx, sy, method)
       IN  \* rb_scan_args "13": size is required
           IF args = <<>> THEN Raise("resize", self, args, "ArgumentError")
           ELSE IF ~IsSize(args[1]) THEN Raise("resize", self, args, "TypeError")
           ELSE IF ~(OptOk(args, 2) /\ OptOk(args, 3) /\ OptOk(args, 4))
           THEN RaiseLeaking("resize", self, args, "TypeError")
           ELSE IF ~r.ok THEN RaiseKernel("resize", self, args, kern)
           ELSE WrapKernel("resize", self, args, kern, <<>>, r.rows, r.cols, m.type, r.data)
  /\ UNCHANGED alive

\* ------------------------------------------------------------ laplacian
BORDER_REPLICATE == 1
BORDER_DEFAULT == 4

\* cv::borderInterpolate for BORDER_REPLICATE and BORDER_REFLECT_101 (the
\* default), at most one element outside 0 .. len - 1
borderInterpolate(p, len, borderType) ==
  IF p >= 0 /\ p < len THEN p
  ELSE IF borderType = BORDER_REPLICATE THEN (IF p < 0 THEN 0 ELSE len - 1)
  ELSE IF len = 1 THEN 0
  ELSE IF p < 0 THEN -p ELSE 2 * len - 2 - p

\* the 3x3 kernels of cv::Laplacian for ksize 1 and ksize 3, row by row
LaplacianKernel(ksize) ==
  IF ksize = 3 THEN <<2, 0, 2, 0, -8, 0, 2, 0, 2>> ELSE <<0, 1, 0, 1, -4, 1, 0, 1, 0>>

\* cv::Laplacian on an 8-bit matrix m, for ksize 1 and 3 (filter2D with the
\* kernel times scale, plus delta) and for even ksize (rejected): whether it
\* returns, and the depth and data of dst
cv_Laplacian(m, ddepth, ksize, scale, delta, borderType) ==
  LET A == CopyData(m)
      cn == channels(m.type)
      dd == IF ddepth < 0 THEN depth(m.type) ELSE depth(ddepth)
      K == LaplacianKernel(ksize)
      Sum(y, x, c) ==
        LET T == [n \in 1..9 |->
                    K[n] * SrcAt(A, m.cols, cn,
                                 borderInterpolate(y + ((n - 1) \div 3) - 1, m.rows, borderType),
                                 borderInterpolate(x + ((n - 1) % 3) - 1, m.cols, borderType), c)]
        IN  T[1] + T[2] + T[3] + T[4] + T[5] + T[6] + T[7] + T[8] + T[9]
  IN  IF ksize % 2 = 0 \/ dd \notin {CV_8U, CV_16S, CV_32F, CV_64F}
      THEN [ok |-> FALSE, depth |-> dd, data |-> <<>>]
      ELSE [ok |-> TRUE, depth |-> dd,
            data |-> [k \in DOMAIN A |->
                        ToStored(dd, Sum((k - 1) \div (m.cols * cn),
                                         ((k - 1) % (m.cols * cn)) \div cn,
                                         (k - 1) % cn) * scale + delta)]]

\* <<ddepth, ksize, scale, delta, border_type>>, the last four optional
LaplacianArgs ==
  { <<>>, <<RNil>>, <<RNum(-2)>>, <<RNum(-2), RNum(2)>>, <<RNum(0), RNum(6)>>, <<RNum(-2), RNum(4)>>,
    <<RNum(2 * CV_8S)>>, <<RNum(-2), RScalar(<<2, 0, 0, 0>>)>>,
    <<RNum(-2), RNil, RNum(1), RNum(2), RNum(2 * BORDER_REPLICATE)>> }

\* NIL_P(x) ? dflt : NUM2INT(x) for the n-th optional argument
OptInt(args, n, dflt) ==
  IF n > Len(args) THEN dflt ELSE IF args[n].k = "nil" THEN dflt ELSE Trunc(args[n].v[1])

\* int ksize_value = NIL_P(ksize) ? 3 : NUM2INT(ksize)
DefaultKsize == 3

rb_laplacian ==
  /\ alive /\ ncalls < MaxCalls
  /\ ncalls' = ncalls + 1
  /\ pre' = bufs
  /\ \E self \in Live, args \in LaplacianArgs :
       LET m == obj2mat(self)
           ksize_value == OptInt(args, 2, DefaultKsize)
           scale_value == OptDbl(args, 3, 2)
           delta_value == OptDbl(args, 4, 0)
           border_type_value == OptInt(args, 5, BORDER_DEFAULT)
           ddepth == Trunc(args[1].v[1])
           kern == <<ddepth, ksize_value, scale_value, delta_value, border_type_value>>
           r == cv_Laplacian(m, ddepth, ksize_value, scale_value, delta_value, border_type_value)
       IN  \* rb_scan_args "14": ddepth is required
           IF args = <<>> THEN Raise("laplacian", self, args, "ArgumentError")
           ELSE IF ~(OptOk(args, 2) /\ OptOk(args, 3) /\ OptOk(args, 4) /\ OptOk(args, 5))
           THEN Raise("laplacian", self, args, "TypeError")
           ELSE IF ~IsNum(args[1]) THEN RaiseLeaking("laplacian", self, args, "TypeError")
           ELSE IF ~r.ok THEN RaiseKernel("laplacian", self, args, kern)
           ELSE WrapKernel("laplacian", self, args, kern, <<>>, m.rows, m.cols,
                           r.depth + 8 * (channels(m.type) - 1), r.data)
  /\ UNCHANGED alive

\* ------------------------------------------- allocation and collection
\* Mat.allocate: an object whose data pointer is still null
rb_allocate ==
  /\ alive /\ ncalls < MaxCalls
  /\ ncalls' = ncalls + 1
  /\ pre' = bufs
  /\ objs' = Append(objs, mat2obj(0, "allocated", 0, NoRoi))
  /\ last' = Call("allocate", 0, <<>>, "ok", Len(objs) + 1, <<>>, <<>>)
  /\ UNCHANGED <<mats, bufs, alive>>

\* the objects the garbage collector may still collect
Collectable == {o \in 1..Len(objs) : objs[o].how # "freed"}

\* cv::Mat::release(): drop one reference, deallocate the data with the last
release(bs, b) ==
  IF b = 0 THEN bs
  ELSE [bs EXCEPT ![b] = [refcount |-> @.refcount - 1,
                          data |-> IF @.refcount = 1 THEN <<>> ELSE @.data]]

\* the collector frees object o: delete of its header unless the pointer is
\* null
free_mat ==
  /\ alive /\ ncalls < MaxCalls
  /\ ncalls' = ncalls + 1
  /\ pre' = bufs
  /\ \E o \in Collectable :
       LET ptr == objs[o].data
       IN  /\ objs' = [objs EXCEPT ![o].how = "freed"]
           /\ IF ptr = 0
              THEN UNCHANGED <<mats, bufs>>
              ELSE /\ mats' = [mats EXCEPT ![ptr].live = FALSE]
                   /\ bufs' = release(bufs, mats[ptr].buf)
           /\ last' = Call("free", o, <<ptr>>, "ok", 0, <<>>, <<>>)
  /\ UNCHANGED alive

\* ---------------------------------------------------------------- imdecode
\* byte arrays: an image of one pixel as the codec writes it, the same with
\* a first byte that only & 0xff brings into range, and bytes of no format
ImageBytes == <<137, 80>>
BufArgs == {<<"ary", <<137, 80>>>>, <<"ary", <<393, 80>>>>, <<"ary", <<1, 2, 3>>>>, <<"nil", <<>>>>}
FlagArgs == {RNum(0), RNil}

\* data[i] = (uchar)(NUM2INT(RARRAY_AREF(buf, i)) & 0xff)
ByteVector(buf) == [i \in DOMAIN buf |-> buf[i] % 256]

\* cv::imdecode(data, flags, dst) leaves *dst empty, and throws nothing, when
\* no decoder recognizes data
rb_imdecode_internal ==
  /\ alive /\ ncalls < MaxCalls
  /\ ncalls' = ncalls + 1
  /\ pre' = bufs
  /\ \E buf \in BufArgs, flags \in FlagArgs :
       LET args == <<buf, flags>>
           data == ByteVector(buf[2])
       IN  \/ /\ buf[1] # "ary"
              /\ Raise("imdecode", 0, args, "TypeError")
           \/ /\ buf[1] = "ary" /\ ~IsNum(flags)
              /\ RaiseLeaking("imdecode", 0, args, "TypeError")
           \/ /\ buf[1] = "ary" /\ IsNum(flags) /\ data = ImageBytes
              /\ WrapFresh("imdecode", 0, args, 1, 1, CV_8U, <<data[2]>>)
           \/ /\ buf[1] = "ary" /\ IsNum(flags) /\ data # ImageBytes
              /\ WrapEmpty("imdecode", 0, args, 0, 0, CV_8U)
  /\ UNCHANGED alive

\* ---------------------------------------------------------- specification
\* the program has made its first matrix: m = Mat.new(2, 2, type)
Init ==
  /\ \E t \in TypeArgs, g \in GarbageVals :
       /\ bufs = <<NewBuf(2 * 2 * channels(t), g)>>
       /\ mats = <<[live |-> TRUE, rows |-> 2, cols |-> 2, type |-> t,
                    buf |-> 1, off |-> 0, step |-> 2 * channels(t)]>>
       /\ last = Call("new", 1, <<2, 2, <<t>>>>, "ok", 1, <<>>, <<>>)
  /\ objs = <<mat2obj(1, "new", 0, NoRoi)>>
  /\ pre = <<>>
  /\ ncalls = 0
  /\ alive = TRUE

Next == rb_initialize \/ rb_clone \/ rb_aset \/ rb_aref

Spec == Init /\ [][Next]_vars

\* the arithmetic layer over matrices made by the factories
NextArith ==
  \/ rb_zeros \/ rb_ones \/ rb_aset
  \/ rb_add \/ rb_sub \/ rb_mul \/ rb_div
  \/ rb_bitwise_and \/ rb_bitwise_or \/ rb_bitwise_xor \/ rb_bitwise_not
  \/ rb_set_identity
  \/ rb_absdiff \/ rb_diag \/ rb_cross \/ rb_add_weighted
  \/ rb_convert_scale_abs \/ rb_convert_to \/ rb_split \/ rb_merge \/ rb_hconcat \/ rb_vconcat

\* the program has made its first matrix: m = Mat.ones(2, 2, type)
InitArith ==
  /\ \E a \in FactoryArgs :
       /\ bufs = <<[refcount |-> 1,
                    data |-> [k \in 1..(a[1] * a[2] * channels(a[3])) |->
                                IF (k - 1) % channels(a[3]) = 0 THEN 1 ELSE 0]]>>
       /\ mats = <<[live |-> TRUE, rows |-> a[1], cols |-> a[2], type |-> a[3],
                    buf |-> 1, off |-> 0, step |-> a[2] * channels(a[3])]>>
       /\ last = Call("ones", 0, a, "ok", 1, <<>>, <<>>)
  /\ objs = <<mat2obj(1, "new", 0, NoRoi)>>
  /\ pre = <<>>
  /\ ncalls = 0
  /\ alive = TRUE

SpecArith == InitArith /\ [][NextArith]_vars

\* the life of objects, headers and buffers: allocation, construction,
\* decoding, collection, and the operations that meet empty matrices
NextLife ==
  \/ rb_allocate \/ rb_initialize \/ free_mat \/ rb_aref
  \/ rb_imdecode_internal \/ rb_split \/ rb_hconcat

\* the program has made p = Mat.new(2, 2, type) and the view
\* v = Mat.new(p, roi) of its second row
InitLife ==
  /\ \E t \in {CV_8U, 8}, g \in GarbageVals :
       LET p == [live |-> TRUE, rows |-> 2, cols |-> 2, type |-> t,
                 buf |-> 1, off |-> 0, step |-> 2 * channels(t)]
           roi == [x |-> 0, y |-> 1, width |-> 2, height |-> 1]
       IN  /\ bufs = <<[refcount |-> 2, data |-> [k \in 1..(4 * channels(t)) |-> g]]>>
           /\ mats = <<p, ViewHeader(p, roi)>>
           /\ objs = <<mat2obj(1, "new", 0, NoRoi), mat2obj(2, "view", 1, roi)>>
           /\ last = Call("view", 2, <<1, roi>>, "ok", 2, <<>>, <<>>)
  /\ pre = <<>>
  /\ ncalls = 0
  /\ alive = TRUE

SpecLife == InitLife /\ [][NextLife]_vars

\* filling matrices made by the factories, and setting their elements
NextFill == rb_zeros \/ rb_ones \/ rb_aset \/ rb_set_to

SpecFill == InitArith /\ [][NextFill]_vars

\* image processing over an 8-bit image
NextImg == rb_threshold \/ rb_resize \/ rb_laplacian

\* the pixels of the first image, row by row: 10 20 / 20 200 in the first
\* channel, 7 in the second
ImgPixels == <<10, 20, 20, 200>>

\* the program has made img = Mat.new(2, 2, type) and set its four elements
InitImg ==
  /\ \E t \in {CV_8U, 8} :
       /\ bufs = <<[refcount |-> 1,
                    data |-> [k \in 1..(4 * channels(t)) |->
                                IF (k - 1) % channels(t) = 0
                                THEN ImgPixels[(k - 1) \div channels(t) + 1] ELSE 7]]>>
       /\ mats = <<[live |-> TRUE, rows |-> 2, cols |-> 2, type |-> t,
                    buf |-> 1, off |-> 0, step |-> 2 * channels(t)]>>
       /\ last = Call("aset", 1, <<<<1, 1>>, RScalar(<<400, 14, 0, 0>>)>>, "ok", 1, <<>>, <<>>)
  /\ objs = <<mat2obj(1, "new", 0, NoRoi)>>
  /\ pre = <<>>
  /\ ncalls = 0
  /\ alive = TRUE

SpecImg == InitImg /\ [][NextImg]_vars

\* ------------------------------------------------- properties of []= and []
\* the receiver of the most recent call, its indices and its Scalar argument
LastMat == obj2mat(last.self)
LastRow == last.args[1]
LastCol == last.args[2]

\* the most recent call is a []= that returned, at indices inside the matrix
AsetInRange ==
  /\ last.op = "aset" /\ last.status = "ok" /\ alive
  /\ InRange(LastMat, LastRow, LastCol)

\* the components the most recent []= stored, as the doubles they read back as
Written == [i \in DOMAIN last.wr |-> ToDouble(depth(LastMat.type), last.wr[i])]

\* the most recent []= changed no buffer but its receiver's
OnlyOwnBuffer ==
  \A b \in 1..Len(bufs) : b # LastMat.buf => bufs[b] = pre[b]

\* o is a view and the element (r, c) of the handle it was made from lies
\* in its region
Covers(o, r, c) ==
  /\ r >= objs[o].roi.y /\ r < objs[o].roi.y + objs[o].roi.height
  /\ c >= objs[o].roi.x /\ c < objs[o].roi.x + objs[o].roi.width

\* C1: after []= stores v at (r, c) through a view, [] through the handle the
\* view was made from finds at (roi.y + r, roi.x + c) the element just
\* stored, which is v when the depth can hold v; and after []= through that
\* handle at a place inside the view's region, [] through the view finds the
\* element just stored at the place shifted back by the region's origin.
C1_ViewAliasing ==
  AsetInRange =>
    /\ \A i \in DOMAIN last.wr :
         Representable(depth(LastMat.type), last.args[3].v[i]) => Written[i] = last.args[3].v[i]
    /\ ElemTuple(LastMat, LastRow, LastCol) = Written
    /\ objs[last.self].how = "view" =>
         ElemTuple(obj2mat(objs[last.self].parent),
                   objs[last.self].roi.y + LastRow, objs[last.self].roi.x + LastCol) = Written
    /\ \A o \in Live :
         (objs[o].how = "view" /\ objs[o].parent = last.self /\ Covers(o, LastRow, LastCol)) =>
           ElemTuple(obj2mat(o), LastRow - objs[o].roi.y, LastCol - objs[o].roi.x) = Written

\* 300 stored at (0, 0) of the view over the region at (1, 1) of a matrix
\* whose depth holds 300 is found at (1, 1) of that matrix and not at (0, 0)
C1_Witness ==
  /\ AsetInRange
  /\ objs[last.self].how = "view"
  /\ objs[last.self].roi.x = 1 /\ objs[last.self].roi.y = 1
  /\ last.args[3].v[1] = 600
  /\ ElemTuple(obj2mat(objs[last.self].parent), 1, 1)[1] = 600
  /\ ElemTuple(obj2mat(objs[last.self].parent), 0, 0)[1] # 600

\* C2: a clone has the shape, the type and the elements of its source in a
\* buffer of its own that no other handle refers to; no clone ever shares
\* the buffer of its source; and a []= at indices inside its receiver
\* changes the receiver's buffer only, so that stores through the clone
\* leave the source as it was, and stores through the source leave the clone.
C2_CloneIndependent ==
  /\ (last.op = "clone" /\ last.status = "ok") =>
       /\ obj2mat(last.ret).rows = LastMat.rows
       /\ obj2mat(last.ret).cols = LastMat.cols
       /\ obj2mat(last.ret).type = LastMat.type
       /\ CopyData(obj2mat(last.ret)) = CopyData(LastMat)
       /\ obj2mat(last.ret).buf > Len(pre)
       /\ bufs[obj2mat(last.ret).buf].refcount = 1
       /\ \A b \in 1..Len(pre) : bufs[b] = pre[b]
  /\ \A o \in Live :
       objs[o].how = "clone" => obj2mat(o).buf # obj2mat(objs[o].parent).buf
  /\ AsetInRange => OnlyOwnBuffer

\* a store through a clone changed the clone, and the source still holds
\* what it held
C2_Witness ==
  /\ AsetInRange
  /\ objs[last.self].how = "clone"
  /\ bufs[LastMat.buf] # pre[LastMat.buf]
  /\ CopyData(obj2mat(objs[last.self].parent)) # CopyData(LastMat)
  /\ bufs[obj2mat(objs[last.self].parent).buf] = pre[obj2mat(objs[last.self].parent).buf]

\* the depth's narrowing of the double d: the value itself when the depth
\* holds it, else its integer part reduced modulo 2^bits, or the nearest float
Narrowed(dp, d) ==
  IF dp \in IntDepths THEN 2 * Wrap(dp, Trunc(d))
  ELSE IF dp = CV_32F THEN RoundF32(d) ELSE d

\* C3: after []= stores v at (r, c), [] at (r, c) reads back v when the
\* depth represents v exactly, else the depth's narrowing conversion of v
\* (300 into an 8-bit element reads back 44).
C3_RoundTrip ==
  AsetInRange =>
    \A i \in 1..channels(LastMat.type) :
      ElemTuple(LastMat, LastRow, LastCol)[i] = Narrowed(depth(LastMat.type), last.args[3].v[i])

\* the indices the most recent [] used
ArefRow == last.wr[1]
ArefCol == last.wr[2]

\* C4: [] at indices inside a matrix of c channels reads c components: the
\* call returns, and what it returns beyond the c components of the element
\* is zero, whatever the other elements or the bytes after the buffer hold.
C4_ReadsOnlyElement ==
  (/\ last.op = "aref" /\ last.status = "ok" /\ Len(last.args) = 2
   /\ InRange(LastMat, ArefRow, ArefCol)) =>
    /\ alive
    /\ \A c \in 1..4 : c > channels(LastMat.type) => last.val[c] = 0

\* C5: []= with a row or a column outside the matrix fails with an error and
\* changes no byte of any buffer.
C5_SetBoundsChecked ==
  (/\ last.op = "aset" /\ IsScalar(last.args[3])
   /\ depth(LastMat.type) \in SupportedDepths
   /\ ~InRange(LastMat, LastRow, LastCol)) =>
    (last.status # "ok" /\ alive /\ bufs = pre)

\* C6: [] with indices outside the matrix fails instead of returning data.
C6_GetBoundsChecked ==
  (/\ last.op = "aref" /\ Len(last.args) = 2
   /\ depth(LastMat.type) \in SupportedDepths
   /\ ~InRange(LastMat, last.args[1], last.args[2])) =>
    last.status # "ok"

\* ------------------------------------------- properties of the operations
BinaryOps == {"+", "-", "*", "/", "absdiff", "bitwise_and", "bitwise_or", "bitwise_xor"}

\* the operations that compute their result into a matrix of their own
FreshOps ==
  BinaryOps \cup {"bitwise_not", "add_weighted", "convert_scale_abs", "convert_to",
                  "cross", "split", "merge", "hconcat", "vconcat"}

\* the handles the most recent call returned
Results == IF last.op = "split" THEN {last.val[i] : i \in DOMAIN last.val} ELSE {last.ret}

\* o's buffer was allocated by the most recent call and o alone refers to it
Fresh(o) ==
  /\ obj2mat(o).buf > Len(pre)
  /\ bufs[obj2mat(o).buf].refcount = 1
  /\ \A h \in Live : h # o => obj2mat(h).buf # obj2mat(o).buf

C8_OperandsUnchanged ==
  last.op \in BinaryOps =>
    /\ Len(bufs) >= Len(pre)
    /\ \A b \in 1..Len(pre) : bufs[b] = pre[b]
    /\ last.status = "ok" => (last.ret = Len(objs) /\ last.ret # last.self)

\* a - b of two different matrices returned a third matrix
C8_Witness ==
  /\ last.op = "-" /\ last.status = "ok"
  /\ IsMat(last.args[1]) /\ last.args[1].v[1] # last.self
  /\ last.ret \notin {last.self, last.args[1].v[1]}

\* C9: every binary operator given a Scalar on the right (and no mask)
\* returns a new matrix of the receiver's shape and type.
C9_ScalarDispatch ==
  (/\ last.op \in BinaryOps /\ IsScalar(last.args[1]) /\ ScalarFits(LastMat)
   /\ Len(last.args) = 2 => last.args[2].k = "nil") =>
    /\ last.status = "ok"
    /\ SameSizeType(obj2mat(last.ret), LastMat)

\* the number, the receiver's components and the result's of the most recent
\* binary operation
NumOperand == last.args[1].v[1]
Before == CopyData(LastMat)
After == CopyData(obj2mat(last.ret))

Allocated == last.val[1]

\* no Ruby object wraps header h
Unwrapped(h) == \A o \in 1..Len(objs) : objs[o].data # h

\* C11: a binary operation whose right operand is nil - neither a matrix,
\* nor a Scalar, nor a number - raises TypeError, returns no object and
\* changes no buffer; absdiff does so for a number as well, and the header
\* absdiff allocated for its output is deleted by the time the error is
\* raised and wrapped by no object.
C11_TypeMismatch ==
  /\ (last.op \in BinaryOps /\ last.args[1] = RNil) =>
       /\ last.status = "TypeError"
       /\ last.ret = 0
       /\ bufs = pre
  /\ (last.op = "absdiff" /\ ~IsMat(last.args[1]) /\ ~IsScalar(last.args[1])) =>
       /\ last.status = "TypeError"
       /\ last.ret = 0
       /\ bufs = pre
       /\ Allocated = Len(mats)
       /\ ~mats[Allocated].live
       /\ Unwrapped(Allocated)

\* absdiff with the number 2.0 raised TypeError after deleting its output
\* header
C11_Witness ==
  /\ last.op = "absdiff" /\ IsNum(last.args[1])
  /\ last.status = "TypeError"
  /\ ~mats[Allocated].live

\* C12: whatever calls have failed, every header that is allocated is the
\* header of some Ruby object: a failing call leaves no allocated header
\* behind that nothing refers to.
C12_NoLeakOnFailure ==
  \A h \in 1..Len(mats) : mats[h].live => ~Unwrapped(h)

\* C13: imdecode of a byte array that the codec does not recognize as an
\* image raises an error and returns no object, an empty one least of all.
C13_DecodeFails ==
  (/\ last.op = "imdecode" /\ last.args[1][1] = "ary" /\ IsNum(last.args[2])
   /\ ByteVector(last.args[1][2]) # ImageBytes) =>
    /\ last.status # "ok"
    /\ last.ret = 0

\* -------------------------------------- properties of objects and buffers
\* C14: Mat.new(rows, cols, type) with rows >= 0 and cols >= 0 returns an
\* object, and its matrix is empty exactly when rows = 0 or cols = 0.
C14_ConstructEmptiness ==
  (last.op = "new" /\ last.args[1] >= 0 /\ last.args[2] >= 0) =>
    /\ last.status = "ok"
    /\ empty(obj2mat(last.ret)) <=> (last.args[1] = 0 \/ last.args[2] = 0)

\* the objects not yet collected whose header refers to buffer b
Holders(b) ==
  {o \in Collectable : objs[o].data # 0 /\ mats[objs[o].data].buf = b}

\* C15: the count of a buffer is the number of objects whose header refers
\* to it, the buffer is deallocated exactly when no such object is left, and
\* collecting an object whose data pointer is null changes nothing.
C15_BufferLifetime ==
  /\ \A b \in 1..Len(bufs) :
       /\ bufs[b].refcount = Cardinality(Holders(b))
       /\ (bufs[b].data = <<>>) <=> (Holders(b) = {})
  /\ (last.op = "free" /\ last.args[1] = 0) => bufs = pre

\* C16: Mat.new(parent, roi) raises when roi is not inside the parent, and
\* when roi is inside it - a roi of no width or no height too - returns a
\* view of roi's height and width.
C16_ViewContainment ==
  last.op = "view" =>
    IF RoiInside(obj2mat(last.args[1]), last.args[2])
    THEN /\ last.status = "ok"
         /\ obj2mat(last.ret).rows = last.args[2].height
         /\ obj2mat(last.ret).cols = last.args[2].width
         /\ obj2mat(last.ret).buf = obj2mat(last.args[1]).buf
    ELSE last.status = "CvError" /\ last.ret = 0

\* ------------------------------------- properties of the structural methods
\* component c (from 0) of element (i, j) of m in the buffers bs
ElemAt(bs, m, i, j, c) == bs[m.buf].data[CompPos(m, i, j, c)]

\* the Scalar the most recent set_identity was given, Scalar(1) by default
IdentityScalar == IF last.args = <<>> THEN <<2, 0, 0, 0>> ELSE last.args[1].v

\* the most recent call is a set_identity that returned
IdentityReturned == last.op = "set_identity" /\ last.status = "ok"

\* the most recent set_identity was given no argument, or a Scalar
IdentityConverts == IF last.args = <<>> THEN TRUE ELSE IsScalar(last.args[1])

\* every element (i, i) of the receiver reads back as the Scalar given
DiagonalSet ==
  \A i \in 0..(LastMat.rows - 1), c \in 0..(channels(LastMat.type) - 1) :
    (i < LastMat.cols /\ Representable(depth(LastMat.type), IdentityScalar[c + 1])) =>
      ToDouble(depth(LastMat.type), ElemAt(bufs, LastMat, i, i, c)) = IdentityScalar[c + 1]

\* C17 as stated: set_identity returns its receiver and adds no buffer, sets
\* the main diagonal to s, and leaves every other element as it was.
C17_OffDiagonalKept ==
  IdentityReturned =>
    /\ last.ret = last.self /\ Len(bufs) = Len(pre)
    /\ DiagonalSet
    /\ \A i \in 0..(LastMat.rows - 1), j \in 0..(LastMat.cols - 1),
          c \in 0..(channels(LastMat.type) - 1) :
         i # j => ElemAt(bufs, LastMat, i, j, c) = ElemAt(pre, LastMat, i, j, c)

\* C17 amended: set_identity on a matrix of a supported depth and at most
\* four channels returns its receiver, adds no buffer and changes no buffer
\* but the receiver's; afterwards every main-diagonal element holds s
\* (Scalar(1), that is 1 in the first channel, when s is omitted) and every
\* other element of the receiver holds 0.
C17_IdentityInPlace ==
  /\ (/\ last.op = "set_identity" /\ IdentityConverts
      /\ ScalarFits(LastMat) /\ depth(LastMat.type) \in SupportedDepths) => last.status = "ok"
  /\ IdentityReturned =>
       /\ last.ret = last.self /\ Len(bufs) = Len(pre)
       /\ \A b \in 1..Len(bufs) : b # LastMat.buf => bufs[b] = pre[b]
       /\ DiagonalSet
       /\ \A i \in 0..(LastMat.rows - 1), j \in 0..(LastMat.cols - 1),
             c \in 0..(channels(LastMat.type) - 1) :
            i # j => ElemAt(bufs, LastMat, i, j, c) = 0

\* set_identity(Scalar(3, 5, 7, 9)) put 3 on the diagonal of a 2x2 matrix
\* and turned the 1 at (0, 1) into 0
C17_Witness ==
  /\ IdentityReturned
  /\ LastMat.rows = 2 /\ LastMat.cols = 2
  /\ ElemAt(pre, LastMat, 0, 1, 0) = 1
  /\ ElemAt(bufs, LastMat, 0, 1, 0) = 0
  /\ ElemAt(bufs, LastMat, 1, 1, 0) = 3

\* ---------------------------------------------------------------- split
\* the most recent split returned one matrix per channel of its receiver
SplitCount ==
  /\ alive /\ last.status = "ok"
  /\ Len(last.val) = channels(LastMat.type)

\* entry c of the most recent split is a single-channel matrix of the
\* receiver's rows, cols and depth that holds channel c of the receiver
SplitPlane(c) ==
  LET t == obj2mat(last.val[c])
  IN  /\ t.rows = LastMat.rows /\ t.cols = LastMat.cols
      /\ t.type = depth(LastMat.type)
      /\ ~empty(t) /\ CopyData(t) = Plane(LastMat, c)

\* C18: split returns as many matrices as the receiver has channels, each a
\* single-channel matrix of the receiver's rows, cols and depth holding that
\* channel's values, each wrapped around a header of its own.
C18_SplitChannels ==
  last.op = "split" =>
    /\ SplitCount
    /\ \A c \in DOMAIN last.val : SplitPlane(c)
    /\ \A c, d \in DOMAIN last.val :
         c # d => objs[last.val[c]].data # objs[last.val[d]].data

\* -------------------------------------------------------------- hconcat
\* the most recent call is hconcat([a, b]) on two matrices
HconcatPair ==
  /\ last.op = "hconcat" /\ last.args[1] = "ary"
  /\ Len(last.args[2]) = 2 /\ last.args[2][1] # 0 /\ last.args[2][2] # 0

HconcatA == obj2mat(last.args[2][1])
HconcatB == obj2mat(last.args[2][2])

\* the most recent call returned a matrix of a's rows and of a's and b's
\* cols together
HconcatJoined ==
  /\ last.status = "ok" /\ last.ret # 0
  /\ obj2mat(last.ret).rows = HconcatA.rows /\ obj2mat(last.ret).rows = HconcatB.rows
  /\ obj2mat(last.ret).cols = HconcatA.cols + HconcatB.cols

\* the most recent call raised the OpenCV error and returned no object: the
\* header it made for the result is deleted and wrapped by no object
HconcatFailed ==
  /\ last.status = "CvError" /\ last.ret = 0
  /\ ~mats[Allocated].live /\ Unwrapped(Allocated)

C19_WitnessType ==
  /\ HconcatPair /\ HconcatFailed
  /\ HconcatA.rows = HconcatB.rows

\* ----------------------------------------------------------- convert_to
\* the most recent call is a convert_to given a negative rtype and, where
\* given, numbers or nil for alpha and beta
ConvertNegative ==
  /\ last.op = "convert_to" /\ last.args # <<>>
  /\ IsNum(last.args[1]) /\ Trunc(last.args[1].v[1]) < 0
  /\ OptOk(last.args, 2) /\ OptOk(last.args, 3)

\* the most recent call is a convert_to given no argument at all
ConvertAbsent == last.op = "convert_to" /\ last.args = <<>>

\* the most recent call returned a new matrix of the receiver's depth,
\* channels, rows and cols
ConvertKept ==
  /\ last.status = "ok" /\ last.ret = Len(objs) /\ last.ret # last.self
  /\ obj2mat(last.ret).type = LastMat.type
  /\ obj2mat(last.ret).rows = LastMat.rows /\ obj2mat(last.ret).cols = LastMat.cols
  /\ Fresh(last.ret)

\* C20 as stated: convert_to succeeds and returns a new matrix of the
\* receiver's depth both when the requested depth is negative and when the
\* depth argument is absent.
C20_AbsentKeepsDepth == (ConvertNegative \/ ConvertAbsent) => ConvertKept

\* C20 amended: convert_to with a negative requested depth succeeds and
\* returns a new matrix of the receiver's depth; with the depth argument
\* absent it raises ArgumentError, returns nothing and allocates nothing.
C20_NegativeKeepsDepth ==
  /\ (ConvertNegative /\ depth(LastMat.type) \in SupportedDepths) => ConvertKept
  /\ ConvertAbsent =>
       /\ last.status = "ArgumentError" /\ last.ret = 0 /\ last.val = <<>>
       /\ bufs = pre

\* convert_to with a negative depth and a scale factor returned
C20_Witness ==
  /\ ConvertNegative /\ last.status = "ok"
  /\ Len(last.args) = 2

\* ------------------------------------------------------- the frame of []=
\* the positions in the receiver's buffer of the components of the element
\* the most recent []= named
ElementPositions ==
  {CompPos(LastMat, LastRow, LastCol, c) : c \in 0..(channels(LastMat.type) - 1)}

SetToReturned == last.op = "set_to" /\ last.status = "ok"

\* the most recent set_to was given a matrix as mask
SetToMasked ==
  IF Len(last.args) < 2 THEN FALSE ELSE IsMat(last.args[2])

\* the mask of the most recent set_to, read before the call, lets component
\* c of element (i, j) be set
LetThrough(i, j, c) ==
  LET mask == obj2mat(last.args[2].v[1])
  IN  pre[mask.buf].data[CompPos(mask, i, j, IF channels(mask.type) = 1 THEN 0 ELSE c)] # 0

\* C26: set_to(value, mask) overwrites the receiver's own elements in place,
\* all of them without a mask and those the mask lets through with one, and
\* returns a new object, distinct from the receiver, whose header is a copy
\* of the receiver's over the same buffer; a later []= through either of the
\* two is found through the other.
C26_SetToShares ==
  /\ SetToReturned =>
       /\ last.ret # last.self /\ last.ret = Len(objs)
       /\ objs[last.ret].data # objs[last.self].data
       /\ obj2mat(last.ret) = LastMat
       /\ Len(bufs) = Len(pre) /\ OnlyOwnBuffer
       /\ \A i \in 0..(LastMat.rows - 1), j \in 0..(LastMat.cols - 1),
            c \in 0..(channels(LastMat.type) - 1) :
            ElemAt(bufs, LastMat, i, j, c) =
              IF (IF SetToMasked THEN LetThrough(i, j, c) ELSE TRUE)
              THEN ToStored(depth(LastMat.type), last.args[1].v[c + 1])
              ELSE ElemAt(pre, LastMat, i, j, c)
  /\ (AsetInRange /\ objs[last.self].how = "set_to") =>
       ElemTuple(obj2mat(objs[last.self].parent), LastRow, LastCol) = Written
  /\ AsetInRange =>
       \A o \in Live : (objs[o].how = "set_to" /\ objs[o].parent = last.self) =>
         ElemTuple(obj2mat(o), LastRow, LastCol) = Written

\* a set_to under a mask that lets some components through and holds others
\* back changed its receiver
C26_Witness ==
  /\ SetToReturned /\ SetToMasked
  /\ bufs[LastMat.buf].data # pre[LastMat.buf].data
  /\ \E i \in 0..(LastMat.rows - 1), j \in 0..(LastMat.cols - 1),
        c \in 0..(channels(LastMat.type) - 1) : ~LetThrough(i, j, c)

\* a []= through the object set_to returned
C26_WitnessSet ==
  /\ AsetInRange /\ objs[last.self].how = "set_to"
  /\ bufs[LastMat.buf] # pre[LastMat.buf]

\* ------------------------------------------------------ new without type
\* C22: Mat.new(rows, cols) with the type left out creates a rows x cols
\* matrix of three channels whose elements are 8-bit unsigned.
C22_DefaultThreeChannels ==
  (last.op = "new" /\ last.args[3] = <<>> /\ last.args[1] > 0 /\ last.args[2] > 0) =>
    /\ last.status = "ok"
    /\ obj2mat(last.ret).rows = last.args[1] /\ obj2mat(last.ret).cols = last.args[2]
    /\ depth(obj2mat(last.ret).type) = CV_8U
    /\ channels(obj2mat(last.ret).type) = 3

\* ============================================================== imgproc
\* flag is set in the threshold type the most recent threshold was given
HasFlag(flag) == (Trunc(last.args[3].v[1]) \div flag) % 2 = 1

\* the most recent call is a threshold that returned
ThresholdReturned == last.op = "threshold" /\ last.status = "ok"

\* C21: a threshold that returns, returns the pair of a matrix and the
\* computed threshold exactly when its type has the Otsu or the Triangle
\* flag set, and the matrix alone for every other type; the matrix is a new
\* one of the receiver's extent and type.
C21_ThresholdShape ==
  ThresholdReturned =>
    /\ Len(last.val) = 1 <=> (HasFlag(THRESH_OTSU) \/ HasFlag(THRESH_TRIANGLE))
    /\ Len(last.val) \in {0, 1}
    /\ HasFlag(THRESH_OTSU) => last.val[1] = 2 * getThreshVal_Otsu_8u(CopyData(LastMat))
    /\ HasFlag(THRESH_TRIANGLE) => last.val[1] = 2 * getThreshVal_Triangle_8u(CopyData(LastMat))
    /\ last.ret = Len(objs) /\ Fresh(last.ret)
    /\ obj2mat(last.ret).rows = LastMat.rows /\ obj2mat(last.ret).cols = LastMat.cols
    /\ obj2mat(last.ret).type = LastMat.type

\* a threshold with the Triangle flag returned a pair
C21_Witness ==
  /\ ThresholdReturned /\ HasFlag(THRESH_TRIANGLE)
  /\ Len(last.val) = 1

\* a threshold with neither flag returned the matrix alone
C21_WitnessAlone ==
  /\ ThresholdReturned /\ ~HasFlag(THRESH_TRIANGLE) /\ ~HasFlag(THRESH_OTSU)
  /\ last.val = <<>>

\* --------------------------------------------------------------- resize
\* the most recent call is a resize that reached cv::resize, given a size
\* alone or a size and a number
ResizeCalled ==
  /\ last.op = "resize" /\ last.kern # <<>>
  /\ Len(last.args) \in {1, 2}

\* C23: resize(size, interpolation) hands cv::resize its second argument as
\* the interpolation method, INTER_LINEAR when only size is given, and scale
\* factors that do not depend on the second argument (those of the call
\* with size alone, 0 and 0); a call that returns, returns what cv::resize
\* makes with that method.
C23_SecondIsInterpolation ==
  ResizeCalled =>
    LET method == IF Len(last.args) = 1 THEN INTER_LINEAR ELSE Trunc(last.args[2].v[1])
    IN  /\ last.kern[5] = method
        /\ last.kern[3] = 0 /\ last.kern[4] = 0
        /\ last.status = "ok" =>
             CopyData(obj2mat(last.ret)) = cv_resize(LastMat, last.args[1].v, 0, 0, method).data

\* ------------------------------------------------------------ laplacian
\* C24: laplacian(ddepth) with ksize left out calls cv::Laplacian with
\* aperture size 1, scale 1, delta 0 and the default border type, and a call
\* that returns, returns what cv::Laplacian makes of these.
C24_DefaultAperture ==
  (last.op = "laplacian" /\ Len(last.args) = 1 /\ last.kern # <<>>) =>
    /\ last.kern = <<Trunc(last.args[1].v[1]), 1, 2, 0, BORDER_DEFAULT>>
    /\ last.status = "ok" =>
         CopyData(obj2mat(last.ret))
           = cv_Laplacian(LastMat, Trunc(last.args[1].v[1]), 1, 2, 0, BORDER_DEFAULT).data

\* ---- C27 ----
\* the last call was new, in its dimensioned or its view form
NewCalled == last.op \in {"new", "view"}

\* the matrix the last new would construct has zero rows or zero columns
NewWouldBeEmpty ==
  IF last.op = "new"
    THEN last.args[1] >= 0 /\ last.args[2] >= 0 /\ last.args[1] * last.args[2] = 0
    ELSE RoiInside(obj2mat(last.args[1]), last.args[2])
         /\ last.args[2].width * last.args[2].height = 0

\* C27: a call to new either attaches a non-empty matrix to the receiver or
\* raises.  When the constructed matrix would be empty, the temporary is
\* deleted, a no-memory error is raised, nothing refers to the temporary, no
\* buffer or reference count has changed and the receiver's data pointer is
\* null; after any raising new the receiver's data pointer is null; after a
\* successful new the receiver holds a live matrix with a buffer, at least
\* one row and at least one column.
C27_NewAttachesOrRaises ==
  NewCalled =>
    /\ last.self = Len(objs)
    /\ NewWouldBeEmpty <=> last.status = "NoMemError"
    /\ last.status = "NoMemError" =>
         /\ Len(last.val) = 1
         /\ ~mats[Allocated].live
         /\ Unwrapped(Allocated)
    /\ last.status # "ok" =>
         /\ objs[last.self].data = 0
         /\ bufs = pre
    /\ last.status = "ok" =>
         /\ objs[last.self].data # 0
         /\ mats[objs[last.self].data].live
         /\ mats[objs[last.self].data].buf # 0
         /\ mats[objs[last.self].data].rows > 0
         /\ mats[objs[last.self].data].cols > 0

\* a dimensioned new with a zero extent raised the no-memory error
C27_Witness ==
  /\ last.op = "new" /\ NewWouldBeEmpty
  /\ last.status = "NoMemError"
  /\ objs[last.self].data = 0

\* a view over a region of zero area raised the no-memory error
C27_WitnessView ==
  /\ last.op = "view" /\ NewWouldBeEmpty
  /\ last.status = "NoMemError"
  /\ objs[last.self].data = 0
  /\ ~mats[Allocated].live

\* ---- C28 ----
\* C28: for any number of index arguments passed to [] , at most CV_MAX_DIM
\* components are stored into the index array, and every component used to
\* compute the element's offset, one per dimension of the matrix, is one the
\* caller supplied.
C28_IndexWithinArray ==
  last.op = "aref" =>
    /\ last.kern[1] <= CV_MAX_DIM
    /\ \A k \in 1..Len(last.wr) :
         k <= Len(last.args) /\ last.wr[k] = last.args[k]

====
